---- MODULE Spec2Model ----
(***************************************************************************)
(* Model of the batch orchestrator of the image pipeline:                  *)
(*   BatchProcessor.process          src/src/batch_processor.py            *)
(*   MemoryOptimizer.batch_generator src/src/utils/memory_utils.py         *)
(*   CheckpointManager               src/src/utils/checkpoint_utils.py     *)
(*   Renamer / Filter / Converter / Packager  src/src/phases/*.py          *)
(*   ParallelProcessor.process_items src/src/utils/parallel_utils.py       *)
(* Spec: one run of process() is a walk of pc from "begin" to "done"       *)
(* (process returned) or "raised" (an exception left process()).           *)
(* StoreSpec: the checkpoint files and index under the saves of the        *)
(* sub-batch loop, with the clock.  ManagerSpec: the operations of         *)
(* CheckpointManager called in any order on one directory.  ClientsSpec:   *)
(* the clients of two batches, their calls interleaved file operation by   *)
(* file operation.  ParSpec: one call of process_items.  InvocationsSpec:  *)
(* two process() calls followed through the paths named by their batch_id. *)
(* LiveSpec: Spec with the fairness of a running thread.  SaveCleanupSpec: *)
(* ManagerSpec with saves and cleanups only.  ProcessorSpec: the setters   *)
(* of a BatchProcessor and the runs after them.  CompareSpec: one call of  *)
(* compare_batches.  PackagerSpec: one call of Packager.process.           *)
(***************************************************************************)
EXTENDS Integers, Sequences, FiniteSets, TLC

\* ---------------------------------------------------------------- bounds
MaxFiles == 13          \* the largest number of valid images a source holds
SmallFiles == 5         \* sources of 0..SmallFiles images are tried with every batch size
MaxBatchSize == 12      \* the larger of the configured memory_batch_size values
MaxFaulty == 1          \* the one faulty file of a source is among its first MaxFaulty
MaxFaultFiles == 1      \* the store starts failing mid-run for sources of 0..MaxFaultFiles images

\* ------------------------------------------------------ program constants
MinBatchSize == 10           \* max(10, batch_size // 2)
MemoryThreshold == 80        \* config.get("memory_threshold", 80)
LowMemoryThreshold == 95     \* config.get("low_memory_threshold", 95)

\* system_memory_percent values a snapshot may report
MemSamples == {50, 90, 97}

\* configured memory_batch_size values
BatchSizes == {2, MaxBatchSize}

\* numbers of valid images of the sources tried
SourceCounts == (0..SmallFiles) \cup {MaxFiles}

\* what can be wrong with one file
Kinds == {"ok", "rename_fail", "unreadable", "too_small", "filter_copy_fail", "convert_fail"}

ScratchDirs == {"extracted", "renamed", "filtered", "converted"}

NoValidImages == "No valid images found in source"

VARIABLES
    config,            \* the configuration dict given to BatchProcessor
    store_writable,    \* whether the checkpoint directory accepts writes
    source_count,      \* number of valid images the source holds
    kind,              \* kind[f]: what is wrong with file f \in 1..MaxFaulty
    pc,                \* position of process()
    extracted_files,   \* list returned by extractor.process
    gen_i,             \* next value of i in range(0, total_items, batch_size)
    gen_step,          \* the step the range object was created with
    gen_batch_size,    \* batch_generator's local batch_size
    batch_idx,         \* enumerate index of the current sub-batch
    file_batch,        \* the sub-batch yielded last
    yielded,           \* every sub-batch yielded so far, in order
    renamed_files,     \* dict returned by renamer.process (insertion order)
    filtered_files,    \* list returned by filter.process
    converted_files,   \* dict returned by converter.process
    total_renamed, total_filtered, total_converted,
    results,           \* the results dict of process()
    ckpts,             \* the save_checkpoint calls of the batch, in order
    dirs,              \* the scratch directories of the batch that exist
    rm_failed,         \* scratch directories whose rmtree raised
    converted_dir,     \* files in <batch_id>_converted
    package,           \* the archive created, <<>> when none
    err,               \* str(e) of the exception being handled
    ret,               \* what process() returned, <<>> before it returns
    calls,             \* the phase components process() has invoked, in order
    renamed_dir,       \* files in <batch_id>_renamed: sequence number -> original
    filter_input,      \* the paths Filter.process iterated in the current sub-batch
    memory_info,       \* system_memory_percent of batch_generator's last snapshot
    mem_calls,         \* optimize_memory calls since the current iteration began
    now,               \* int(time.time()) as the checkpoint store reads it
    cp_files,          \* the .checkpoint files: filename -> pickled state_data
    cp_index,          \* the index files: batch_id -> content of <batch_id>_index.json
    cp_todo,           \* the records a client of the store has still to save
    cp_returned,       \* what save_checkpoint returned to the client, per record
    cp_result,         \* the last call on the CheckpointManager and what it returned
    cp_clients,        \* batch_id -> where its client is inside a CheckpointManager call
    par_enabled,       \* ParallelProcessor.parallel_enabled
    par_callback,      \* whether process_items was given a callback
    par_items,         \* the items given to process_items
    par_fails,         \* positions of the items for which task_function raises
    par_pc,            \* position of process_items
    par_applied,       \* positions task_function has been applied to
    par_taken,         \* positions whose future the as_completed loop has taken
    par_results,       \* the local results list
    par_cb,            \* the results the callback was called with, in order
    par_ret,           \* what process_items returned
    invocations,       \* the process() calls in flight: their resume hint and batch_id
    shared_paths,      \* path under the temp and checkpoint directories -> its writers
    processor,         \* a BatchProcessor object: its config dict and its components' fields
    processor_calls,   \* the calls made on the BatchProcessor object, in order
    reports,           \* the two report files given to compare_batches
    comparison,        \* what compare_batches returned, <<>> before it is called
    packager           \* one call of Packager.process: its position, files and archive

vars == <<config, store_writable, source_count, kind, pc, extracted_files,
          gen_i, gen_step, gen_batch_size, batch_idx, file_batch, yielded,
          renamed_files, filtered_files, converted_files,
          total_renamed, total_filtered, total_converted,
          results, ckpts, dirs, rm_failed, converted_dir, package, err, ret,
          calls, renamed_dir, filter_input, memory_info, mem_calls,
          now, cp_files, cp_index, cp_todo, cp_returned, cp_result, cp_clients,
          par_enabled, par_callback, par_items, par_fails, par_pc,
          par_applied, par_taken, par_results, par_cb, par_ret,
          invocations, shared_paths,
          processor, processor_calls, reports, comparison, packager>>

\* ---------------------------------------------------------------- helpers
Min(a, b) == IF a < b THEN a ELSE b
Max(a, b) == IF a > b THEN a ELSE b

Range(s) == {s[j] : j \in 1..Len(s)}

RECURSIVE Concat(_)
Concat(ss) == IF ss = <<>> THEN <<>> ELSE Head(ss) \o Concat(Tail(ss))

\* items[i:end] of Python, i and end 0-based, end exclusive
Slice(items, i, end) == SubSeq(items, i + 1, Min(end, Len(items)))

KindOf(f) == IF f \in DOMAIN kind THEN kind[f] ELSE "ok"

\* ------------------------------------------------------- memory_utils.py
IsLowMemory(percent) == percent > MemoryThreshold
IsCriticalMemory(percent) == percent > LowMemoryThreshold

ReducedBatchSize_NoFloor(batch_size) == batch_size \div 2
ReducedBatchSize(batch_size) == Max(MinBatchSize, batch_size \div 2)

\* batch size used for the slice after the memory check of one iteration
BatchSizeAfterCheck_Always(batch_size, percent) == ReducedBatchSize(batch_size)
BatchSizeAfterCheck(batch_size, percent) ==
    IF IsCriticalMemory(percent) THEN ReducedBatchSize(batch_size) ELSE batch_size

\* the slice one iteration yields
YieldedBatch(items, i, batch_size) == Slice(items, i, Min(i + batch_size, Len(items)))

\* optimize_memory(force): takes its own snapshot and runs gc.collect() when
\* forced or when that snapshot is above the memory threshold
OptimizeMemory(caller, force, percent) ==
    [by |-> caller, force |-> force, collected |-> force \/ IsLowMemory(percent)]

\* --------------------------------------------------- checkpoint_utils.py
\* save_checkpoint(batch_id, state_data): returns a path when the record was
\* written, None when checkpoints are disabled or the write raised.
SaveCheckpoint_GivesUp(log, state_data) ==
    IF log # <<>> /\ ~log[Len(log)].saved THEN log
    ELSE Append(log, [state |-> state_data,
                      saved |-> config.enable_checkpoints /\ store_writable])
SaveCheckpoint(log, state_data) ==
    Append(log, [state |-> state_data,
                 saved |-> config.enable_checkpoints /\ store_writable])

\* --------------------------------------------------- checkpoint records
PhaseLabel_NoIndex(stage, k) == <<stage, "batch", 0>>
PhaseLabel(stage, k) == <<stage, "batch", k>>

StartedRecord(phase) == [phase |-> phase, status |-> "started"]
CompletedRecord_Started(phase, count) == [phase |-> phase, status |-> "started", count |-> count]
CompletedRecord(phase, count) == [phase |-> phase, status |-> "completed", count |-> count]
PackageCompletedRecord(package_result) ==
    [phase |-> <<"package">>, status |-> "completed", path |-> package_result]
ErrorRecord_NoMessage(message) == [phase |-> <<"error">>, error |-> ""]
ErrorRecord(message) == [phase |-> <<"error">>, error |-> message]

\* ------------------------------------------------------------ phases/*.py
\* Renamer.rename_file: None when the copy raised
RenameFile(f, sequence_number) ==
    IF KindOf(f) = "rename_fail" THEN 0 ELSE sequence_number

\* Renamer.process: sorts the paths, numbers them index + 1 and keeps the
\* ones whose rename_file returned a path; a dict original -> renamed, here
\* the sequence of its items in insertion order
RenamerProcess(file_paths) ==
    LET sorted_files == SortSeq(file_paths, <)
        all == [j \in 1..Len(sorted_files) |->
                   [orig |-> sorted_files[j], new |-> RenameFile(sorted_files[j], j)]]
    IN  SelectSeq(all, LAMBDA e : e.new # 0)

\* iterating a dict yields its keys
DictKeys(d) == [j \in 1..Len(d) |-> d[j].orig]

\* a file of the extracted directory, and the file bid<n> of the renamed one
OriginalPath(f) == [dir |-> "extracted", name |-> f]
RenamedPath(n) == [dir |-> "renamed", name |-> n]

\* shutil.copy2(file_path, new_path) in rename_file: the renamed directory
\* after the copies of one Renamer.process call, a later copy to the same
\* name replacing the earlier file
WriteRenamed(dir, renamed) ==
    LET names == {renamed[j].new : j \in 1..Len(renamed)}
        last(n) == CHOOSE j \in 1..Len(renamed) : renamed[j].new = n
    IN  [n \in (DOMAIN dir) \cup names |->
            IF n \in names THEN renamed[last(n)].orig ELSE dir[n]]

\* for i, file_path in enumerate(file_paths), file_paths being the dict
\* Renamer.process returned: the paths Filter.process inspects and copies
FilterInput(renamed) == [j \in 1..Len(renamed) |-> OriginalPath(DictKeys(renamed)[j])]

\* Filter.meets_criteria: False for a small image and for one that cannot be opened
MeetsCriteria(f) == KindOf(f) \notin {"unreadable", "too_small"}

\* shutil.copy2 in Filter.process is outside any try
FilterCopyRaises(file_paths) ==
    \E j \in 1..Len(file_paths) :
        MeetsCriteria(file_paths[j]) /\ KindOf(file_paths[j]) = "filter_copy_fail"

\* Filter.process on the paths it iterates: the accepted ones, each copied
\* to the output directory under its own basename
FilterProcess(file_paths) == SelectSeq(file_paths, MeetsCriteria)

\* Converter.convert_image: None when the conversion failed
ConvertImage(f) == KindOf(f) # "convert_fail"

\* Converter.process: results[path] = converted path or None, for every path
ConverterProcess(paths) == [j \in 1..Len(paths) |-> [src |-> paths[j], ok |-> ConvertImage(paths[j])]]

ConvertedOk(converted) == {converted[j].src : j \in {x \in 1..Len(converted) : converted[x].ok}}

\* the checkpoint directory is empty and the store was handed nothing yet
StoreEmpty ==
    /\ now = 0
    /\ cp_files = <<>>
    /\ cp_index = <<>>
    /\ cp_returned = <<>>
    /\ cp_result = <<>>
    /\ cp_clients = <<>>

\* no process() call is tracked by its batch_id
NoInvocations == invocations = <<>> /\ shared_paths = <<>>

\* no BatchProcessor object is followed through its setters, compare_batches
\* has no reports and Packager.process is not running
ObjectsIdle ==
    /\ processor = <<>> /\ processor_calls = <<>>
    /\ reports = <<>> /\ comparison = <<>>
    /\ packager = <<>>

\* process_items is not running
ParallelIdle ==
    /\ par_enabled = FALSE /\ par_callback = FALSE
    /\ par_items = <<>> /\ par_fails = {}
    /\ par_pc = "idle"
    /\ par_applied = {} /\ par_taken = {}
    /\ par_results = <<>> /\ par_cb = <<>> /\ par_ret = <<>>

\* ------------------------------------------------------------------- Init
Init ==
    /\ config \in [memory_batch_size : BatchSizes,
                   delete_after_packaging : BOOLEAN,
                   directory_keys : {{"temp_directory", "report_directory"},
                                     {"temp_directory"}, {"report_directory"}},
                   enable_checkpoints : BOOLEAN]
    /\ store_writable \in BOOLEAN
    /\ (~config.enable_checkpoints => store_writable)
    /\ source_count \in SourceCounts
    /\ (source_count > SmallFiles => config.memory_batch_size = MaxBatchSize)
    /\ kind \in {k \in [1..MaxFaulty -> Kinds] : Cardinality({f \in 1..MaxFaulty : k[f] # "ok"}) <= 1}
    /\ pc = "begin"
    /\ extracted_files = <<>>
    /\ gen_i = 0 /\ gen_step = 0 /\ gen_batch_size = 0
    /\ batch_idx = -1
    /\ file_batch = <<>>
    /\ yielded = <<>>
    /\ renamed_files = <<>> /\ filtered_files = <<>> /\ converted_files = <<>>
    /\ total_renamed = 0 /\ total_filtered = 0 /\ total_converted = 0
    /\ results = <<>>
    /\ ckpts = <<>>
    /\ dirs = {}
    /\ rm_failed = {}
    /\ converted_dir = {}
    /\ package = <<>>
    /\ err = ""
    /\ ret = <<>>
    /\ calls = <<>>
    /\ renamed_dir = <<>>
    /\ filter_input = <<>>
    /\ memory_info = 0
    /\ mem_calls = <<>>
    /\ StoreEmpty
    /\ cp_todo = <<>>
    /\ ParallelIdle
    /\ NoInvocations
    /\ ObjectsIdle

inputs == <<config, store_writable, source_count, kind>>
invVars == <<invocations, shared_paths>>
apiVars == <<processor, processor_calls, reports, comparison, packager>>
genVars == <<gen_i, gen_step, gen_batch_size, batch_idx, file_batch, yielded>>
memVars == <<memory_info, mem_calls>>
stageVars == <<renamed_files, filtered_files, converted_files>>
totals == <<total_renamed, total_filtered, total_converted>>
fsVars == <<dirs, rm_failed, converted_dir, package>>
rest == <<calls, renamed_dir, filter_input, memVars>>
storeVars == <<now, cp_files, cp_index, cp_todo, cp_returned, cp_result, cp_clients>>
parInputs == <<par_enabled, par_callback, par_items, par_fails>>
parVars == <<parInputs, par_pc, par_applied, par_taken, par_results, par_cb, par_ret>>

\* the except clause is entered with the exception e
Raise(message) == pc' = "except" /\ err' = message

\* ------------------------------------------------- BatchProcessor.process
\* line 109: not extracted_files or len(extracted_files) == 0
NoFilesExtracted_Never(files) == FALSE
NoFilesExtracted(files) == Len(files) = 0

\* line 211: the directories the finally clause removes
CleanedDirs_NotConverted == ScratchDirs \ {"converted"}
CleanedDirs == ScratchDirs

\* lines 81-97: the scratch paths are built from self.config["temp_directory"]
\* before the try; a missing key raises KeyError out of process()
Begin ==
    /\ pc = "begin"
    /\ IF "temp_directory" \notin config.directory_keys
       THEN /\ pc' = "raised"
            /\ UNCHANGED results
       ELSE /\ pc' = "extract_start"
            /\ results' = [batch_id |-> "batch", source |-> "source", stats |-> <<>>]
    /\ UNCHANGED <<inputs, storeVars, parVars, invVars, apiVars, err, extracted_files, genVars, stageVars, totals, ckpts, fsVars, ret, rest>>

\* lines 101-102
ExtractStart ==
    /\ pc = "extract_start"
    /\ ckpts' = SaveCheckpoint(ckpts, StartedRecord(<<"extract">>))
    /\ pc' = "extract_run"
    /\ UNCHANGED <<inputs, storeVars, parVars, invVars, apiVars, extracted_files, genVars, stageVars, totals, results, fsVars, err, ret, rest>>

\* lines 103-115: extractor.process creates the directory, then returns the
\* valid images of the source
ExtractRun ==
    /\ pc = "extract_run"
    /\ LET files == [j \in 1..source_count |-> j]
           extract_count == Len(files)
       IN  /\ extracted_files' = files
           /\ results' = [results EXCEPT !.stats = ("extracted" :> extract_count) @@ @]
           /\ ckpts' = SaveCheckpoint(ckpts, CompletedRecord(<<"extract">>, extract_count))
           /\ IF NoFilesExtracted(files)
              THEN /\ ret' = [error |-> NoValidImages]
                   /\ pc' = "finally"
                   /\ UNCHANGED <<gen_i, gen_step, gen_batch_size>>
              ELSE /\ pc' = "gen"
                   /\ gen_i' = 0
                   /\ gen_step' = config.memory_batch_size
                   /\ gen_batch_size' = config.memory_batch_size
                   /\ UNCHANGED ret
    /\ dirs' = dirs \cup {"extracted"}
    /\ calls' = Append(calls, "extract")
    /\ UNCHANGED <<inputs, storeVars, parVars, invVars, apiVars, batch_idx, file_batch, yielded, stageVars, totals,
                   rm_failed, converted_dir, package, err,
                   renamed_dir, filter_input, memVars>>

\* extractor.process raises (unsupported or corrupt archive, invalid source path)
ExtractRaise ==
    /\ pc = "extract_run"
    /\ dirs' = dirs \cup {"extracted"}
    /\ Raise("Invalid source path")
    /\ calls' = Append(calls, "extract")
    /\ UNCHANGED <<inputs, storeVars, parVars, invVars, apiVars, extracted_files, genVars, stageVars, totals, results, ckpts,
                   rm_failed, converted_dir, package, ret,
                   renamed_dir, filter_input, memVars>>

\* memory_utils.py line 101: range(0, total_items, batch_size) hands out its
\* next value, whatever batch_size has become since the range was created
RangeNext_Stuck(i, step) == i

RangeNext(i, step) == i + step

\* memory_utils.py lines 101-120, one iteration of the generator up to its
\* yield, resumed by the for loop of process() (line 124)
GenYield ==
    /\ pc = "gen"
    /\ gen_i < Len(extracted_files)
    /\ \E percent \in MemSamples :
         LET batch_size == BatchSizeAfterCheck(gen_batch_size, percent)
             batch == YieldedBatch(extracted_files, gen_i, batch_size)
         IN  /\ memory_info' = percent
             /\ mem_calls' = IF IsCriticalMemory(percent)
                              THEN <<OptimizeMemory("batch_generator", TRUE, percent)>>
                              ELSE <<>>
             /\ gen_batch_size' = batch_size
             /\ file_batch' = batch
             /\ yielded' = Append(yielded, batch)
    /\ gen_i' = RangeNext(gen_i, gen_step)
    /\ batch_idx' = batch_idx + 1
    /\ pc' = "rename_start"
    /\ UNCHANGED <<inputs, storeVars, parVars, invVars, apiVars, extracted_files, gen_step, stageVars, totals, results, ckpts,
                   fsVars, err, ret, calls, renamed_dir, filter_input>>

\* memory_utils.py lines 122-124: the generator is resumed after its yield.
\* gen_i is already the next value of the range, so the i of the iteration
\* being finished is gen_i - gen_step
GenResume ==
    /\ pc = "gen_resume"
    /\ IF (gen_i - gen_step) + gen_batch_size < Len(extracted_files)
       THEN \E percent \in MemSamples :
                mem_calls' = Append(mem_calls, OptimizeMemory("batch_generator", FALSE, percent))
       ELSE UNCHANGED mem_calls
    /\ pc' = "gen"
    /\ UNCHANGED <<inputs, storeVars, parVars, invVars, apiVars, extracted_files, genVars, stageVars, totals, results, ckpts,
                   fsVars, err, ret, calls, renamed_dir, filter_input, memory_info>>

\* the range is exhausted: the for loop ends; lines 157-160
GenExhausted ==
    /\ pc = "gen"
    /\ gen_i >= Len(extracted_files)
    /\ results' = [results EXCEPT !.stats =
                      ("renamed" :> total_renamed) @@ ("filtered" :> total_filtered)
                      @@ ("converted" :> total_converted) @@ @]
    /\ pc' = "package_start"
    /\ UNCHANGED <<inputs, storeVars, parVars, invVars, apiVars, extracted_files, genVars, stageVars, totals, ckpts, fsVars, err, ret, rest>>

\* lines 128-129
RenameStart ==
    /\ pc = "rename_start"
    /\ ckpts' = SaveCheckpoint(ckpts, StartedRecord(PhaseLabel("rename", batch_idx)))
    /\ pc' = "rename_run"
    /\ UNCHANGED <<inputs, storeVars, parVars, invVars, apiVars, extracted_files, genVars, stageVars, totals, results, fsVars, err, ret, rest>>

\* lines 130-134
RenameRun ==
    /\ pc = "rename_run"
    /\ LET renamed == RenamerProcess(file_batch)
           rename_count == Len(renamed)
       IN  /\ renamed_files' = renamed
           /\ total_renamed' = total_renamed + rename_count
           /\ ckpts' = SaveCheckpoint(ckpts, CompletedRecord(PhaseLabel("rename", batch_idx), rename_count))
           /\ renamed_dir' = WriteRenamed(renamed_dir, renamed)
    /\ dirs' = dirs \cup {"renamed"}
    /\ calls' = Append(calls, "rename")
    /\ pc' = "filter_start"
    /\ UNCHANGED <<inputs, storeVars, parVars, invVars, apiVars, extracted_files, genVars, filtered_files, converted_files,
                   total_filtered, total_converted, results, rm_failed, converted_dir,
                   package, err, ret, filter_input, memVars>>

\* os.makedirs(output_dir) in Renamer.process raises
RenameRaise ==
    /\ pc = "rename_run"
    /\ Raise("cannot create renamed directory")
    /\ calls' = Append(calls, "rename")
    /\ UNCHANGED <<inputs, storeVars, parVars, invVars, apiVars, extracted_files, genVars, stageVars, totals, results, ckpts, fsVars, ret,
                   renamed_dir, filter_input, memVars>>

\* lines 137-138
FilterStart ==
    /\ pc = "filter_start"
    /\ ckpts' = SaveCheckpoint(ckpts, StartedRecord(PhaseLabel("filter", batch_idx)))
    /\ pc' = "filter_run"
    /\ UNCHANGED <<inputs, storeVars, parVars, invVars, apiVars, extracted_files, genVars, stageVars, totals, results, fsVars, err, ret, rest>>

\* lines 139-143: filter.process is given the dict and iterates its keys
FilterRun ==
    /\ pc = "filter_run"
    /\ ~FilterCopyRaises(DictKeys(renamed_files))
    /\ LET filtered == FilterProcess(DictKeys(renamed_files))
           filter_count == Len(filtered)
       IN  /\ filtered_files' = filtered
           /\ total_filtered' = total_filtered + filter_count
           /\ ckpts' = SaveCheckpoint(ckpts, CompletedRecord(PhaseLabel("filter", batch_idx), filter_count))
    /\ filter_input' = FilterInput(renamed_files)
    /\ dirs' = dirs \cup {"filtered"}
    /\ calls' = Append(calls, "filter")
    /\ pc' = "convert_start"
    /\ UNCHANGED <<inputs, storeVars, parVars, invVars, apiVars, extracted_files, genVars, renamed_files, converted_files,
                   total_renamed, total_converted, results, rm_failed, converted_dir,
                   package, err, ret, renamed_dir, memVars>>

\* shutil.copy2 of an accepted image raises inside Filter.process
FilterCopyRaise ==
    /\ pc = "filter_run"
    /\ FilterCopyRaises(DictKeys(renamed_files))
    /\ dirs' = dirs \cup {"filtered"}
    /\ Raise("cannot copy file")
    /\ filter_input' = FilterInput(renamed_files)
    /\ calls' = Append(calls, "filter")
    /\ UNCHANGED <<inputs, storeVars, parVars, invVars, apiVars, extracted_files, genVars, stageVars, totals, results, ckpts,
                   rm_failed, converted_dir, package, ret, renamed_dir, memVars>>

\* os.makedirs(output_dir) in Filter.process raises
FilterRaise ==
    /\ pc = "filter_run"
    /\ Raise("cannot create filtered directory")
    /\ calls' = Append(calls, "filter")
    /\ UNCHANGED <<inputs, storeVars, parVars, invVars, apiVars, extracted_files, genVars, stageVars, totals, results, ckpts, fsVars, ret,
                   renamed_dir, filter_input, memVars>>

\* lines 146-147
ConvertStart ==
    /\ pc = "convert_start"
    /\ ckpts' = SaveCheckpoint(ckpts, StartedRecord(PhaseLabel("convert", batch_idx)))
    /\ pc' = "convert_run"
    /\ UNCHANGED <<inputs, storeVars, parVars, invVars, apiVars, extracted_files, genVars, stageVars, totals, results, fsVars, err, ret, rest>>

\* lines 148-155; the loop body ends with optimize_memory(force=True)
ConvertRun ==
    /\ pc = "convert_run"
    /\ LET converted == ConverterProcess(filtered_files)
           convert_count == Len(converted)
       IN  /\ converted_files' = converted
           /\ total_converted' = total_converted + convert_count
           /\ converted_dir' = converted_dir \cup ConvertedOk(converted)
           /\ ckpts' = SaveCheckpoint(ckpts, CompletedRecord(PhaseLabel("convert", batch_idx), convert_count))
    /\ dirs' = dirs \cup {"converted"}
    /\ calls' = Append(calls, "convert")
    /\ mem_calls' = Append(mem_calls, OptimizeMemory("process", TRUE, memory_info))
    /\ pc' = "gen_resume"
    /\ UNCHANGED <<inputs, storeVars, parVars, invVars, apiVars, extracted_files, genVars, renamed_files, filtered_files,
                   total_renamed, total_filtered, results, rm_failed, package, err, ret,
                   renamed_dir, filter_input, memory_info>>

\* os.makedirs(output_dir) in Converter.process raises
ConvertRaise ==
    /\ pc = "convert_run"
    /\ Raise("cannot create converted directory")
    /\ calls' = Append(calls, "convert")
    /\ UNCHANGED <<inputs, storeVars, parVars, invVars, apiVars, extracted_files, genVars, stageVars, totals, results, ckpts, fsVars, ret,
                   renamed_dir, filter_input, memVars>>

\* lines 163-164
PackageStart ==
    /\ pc = "package_start"
    /\ ckpts' = SaveCheckpoint(ckpts, StartedRecord(<<"package">>))
    /\ pc' = "package_run"
    /\ UNCHANGED <<inputs, storeVars, parVars, invVars, apiVars, extracted_files, genVars, stageVars, totals, results, fsVars, err, ret, rest>>

\* Packager.process: create_package returns the archive path, or None when
\* anything in it raised; the packaged files are deleted only after a path
\* was returned and when delete_after_packaging is set
PackagerProcess(paths, created) ==
    IF created
    THEN [package_path |-> "package.zip", file_count |-> Cardinality(paths)]
    ELSE [package_path |-> "None", file_count |-> Cardinality(paths),
          error |-> "Failed to create package"]

\* Packager.create_package lines 55-76: one entry per file, named by its
\* basename, and metadata.txt when include_metadata (default True) is set
CreatePackage(paths, include_metadata) ==
    {<<"file", f>> : f \in paths} \cup (IF include_metadata THEN {<<"metadata.txt">>} ELSE {})

\* lines 166-185: every file found under the converted directory is packaged.
\* include_metadata is read from the configuration by the packager only.
PackageRun ==
    /\ pc = "package_run"
    /\ \E created \in BOOLEAN, include_metadata \in BOOLEAN :
         LET package_result == PackagerProcess(converted_dir, created)
         IN  /\ package' = IF created
                            THEN [entries |-> CreatePackage(converted_dir, include_metadata)]
                            ELSE package
             /\ converted_dir' = IF created /\ config.delete_after_packaging
                                 THEN {} ELSE converted_dir
             /\ results' = ("package" :> package_result) @@
                           [results EXCEPT !.stats = ("packaged" :> total_converted) @@ @]
             /\ ckpts' = SaveCheckpoint(ckpts, PackageCompletedRecord(package_result))
    /\ calls' = Append(calls, "package")
    /\ pc' = "report"
    /\ UNCHANGED <<inputs, storeVars, parVars, invVars, apiVars, extracted_files, genVars, stageVars, totals, dirs, rm_failed, err, ret,
                   renamed_dir, filter_input, memVars>>

\* lines 187-201: the report is written and results returned
Report ==
    /\ pc = "report"
    /\ "report_directory" \in config.directory_keys
    /\ ret' = results
    /\ pc' = "finally"
    /\ UNCHANGED <<inputs, storeVars, parVars, invVars, apiVars, extracted_files, genVars, stageVars, totals, results, ckpts, fsVars, err, rest>>

\* line 188: self.config["report_directory"] raises KeyError inside the try
ReportKeyError ==
    /\ pc = "report"
    /\ "report_directory" \notin config.directory_keys
    /\ Raise("'report_directory'")
    /\ UNCHANGED <<inputs, storeVars, parVars, invVars, apiVars, extracted_files, genVars, stageVars, totals, results, ckpts, fsVars, ret, rest>>

\* lines 189-191: makedirs, open or json.dump raises
ReportRaise ==
    /\ pc = "report"
    /\ "report_directory" \in config.directory_keys
    /\ Raise("cannot write report")
    /\ UNCHANGED <<inputs, storeVars, parVars, invVars, apiVars, extracted_files, genVars, stageVars, totals, results, ckpts, fsVars, ret, rest>>

\* lines 202-207
Except ==
    /\ pc = "except"
    /\ ckpts' = SaveCheckpoint(ckpts, ErrorRecord(err))
    /\ ret' = [error |-> err]
    /\ pc' = "finally"
    /\ UNCHANGED <<inputs, storeVars, parVars, invVars, apiVars, extracted_files, genVars, stageVars, totals, results, fsVars, err, rest>>

\* lines 208-216: every scratch directory that exists is removed, unless its
\* rmtree raises, which is only printed
Finally ==
    /\ pc = "finally"
    /\ IF config.delete_after_packaging
       THEN \E failed \in SUBSET (dirs \cap CleanedDirs) :
              /\ dirs' = (dirs \ CleanedDirs) \cup failed
              /\ rm_failed' = failed
              /\ converted_dir' = IF "converted" \in failed THEN converted_dir ELSE {}
              /\ renamed_dir' = IF "renamed" \in failed THEN renamed_dir ELSE <<>>
       ELSE UNCHANGED <<dirs, rm_failed, converted_dir, renamed_dir>>
    /\ pc' = "done"
    /\ UNCHANGED <<inputs, storeVars, parVars, invVars, apiVars, extracted_files, genVars, stageVars, totals, results, ckpts,
                   package, err, ret, calls, filter_input, memVars>>

\* checkpoint_utils.py lines 50, 101-103: from some moment of the run on the
\* checkpoint directory takes no writes (disk full, permission withdrawn) and
\* every later save_checkpoint ends in its except clause
StoreFault ==
    /\ pc \notin {"done", "raised"}
    /\ source_count <= MaxFaultFiles
    /\ config.enable_checkpoints
    /\ store_writable
    /\ store_writable' = FALSE
    /\ UNCHANGED <<config, source_count, kind, pc, storeVars, parVars, invVars, apiVars, extracted_files, genVars,
                   stageVars, totals, results, ckpts, fsVars, err, ret, rest>>

Next ==
    \/ StoreFault
    \/ Begin
    \/ ExtractStart \/ ExtractRun \/ ExtractRaise
    \/ GenYield \/ GenResume \/ GenExhausted
    \/ RenameStart \/ RenameRun \/ RenameRaise
    \/ FilterStart \/ FilterRun \/ FilterCopyRaise \/ FilterRaise
    \/ ConvertStart \/ ConvertRun \/ ConvertRaise
    \/ PackageStart \/ PackageRun
    \/ Report \/ ReportKeyError \/ ReportRaise
    \/ Except
    \/ Finally

Spec == Init /\ [][Next]_vars

\* process() runs in one thread that is never suspended for good: as long as
\* a step of the run is possible, one is taken
LiveSpec == Spec /\ WF_vars(Next)

\* ------------------------------------------------------ the checkpoint store
\* CheckpointManager.save_checkpoint on its files, driven by the saves of the
\* sub-batch loop of process() and by the clock.
MaxClock == 2           \* the clock advances at most MaxClock seconds

BatchId == "batch"

None == <<>>

\* line 53: f"{batch_id}_{timestamp}.checkpoint"
CheckpointFilename(batch_id, timestamp) == <<batch_id, timestamp>>

\* lines 80-85
CheckpointInfo(batch_id, timestamp) ==
    [filename |-> CheckpointFilename(batch_id, timestamp), timestamp |-> timestamp]

\* an index file that json.load parses, holding the 'checkpoints' list
IndexFile(checkpoints) == [json |-> TRUE, checkpoints |-> checkpoints]

\* an index file that json.load rejects
GarbledIndex == [json |-> FALSE, checkpoints |-> <<>>]

\* os.path.exists(index_path) and json.load(f) succeeds
IndexReadable(index, batch_id) == batch_id \in DOMAIN index /\ index[batch_id].json

\* lines 71-77, 87-88: the list save_checkpoint appends to; a missing or
\* rejected index file gives an empty one
LoadIndex(index, batch_id) ==
    IF IndexReadable(index, batch_id) THEN index[batch_id].checkpoints ELSE <<>>

\* save_checkpoint lines 47-103 on the files of the checkpoint directory:
\* nothing is written when checkpoints are disabled or the directory takes
\* no writes; otherwise the record is dumped to the file named by the batch
\* and the second, open(path, 'wb') replacing a file of that name, and an
\* entry is appended to the index of the batch
WriteCheckpoint(files, index, batch_id, state_data, timestamp) ==
    IF ~(config.enable_checkpoints /\ store_writable)
    THEN [files |-> files, index |-> index, path |-> None]
    ELSE LET filename == CheckpointFilename(batch_id, timestamp)
             checkpoints == Append(LoadIndex(index, batch_id),
                                   CheckpointInfo(batch_id, timestamp))
         IN  [files |-> (filename :> state_data) @@ files,
              index |-> (batch_id :> IndexFile(checkpoints)) @@ index,
              path |-> filename]

\* load_checkpoint lines 105-123
LoadCheckpoint(files, checkpoint_path) ==
    IF checkpoint_path \in DOMAIN files THEN files[checkpoint_path] ELSE None

\* len(range(0, total_items, batch_size)), memory_utils.py line 101
RangeLen(total_items, batch_size) == (total_items + batch_size - 1) \div batch_size

\* batch_processor.py lines 128-152: the six records process() saves for
\* sub-batch k, count being the number of files the sub-batch holds
SubBatchRecords(k, count) ==
    <<StartedRecord(PhaseLabel("rename", k)), CompletedRecord(PhaseLabel("rename", k), count),
      StartedRecord(PhaseLabel("filter", k)), CompletedRecord(PhaseLabel("filter", k), count),
      StartedRecord(PhaseLabel("convert", k)), CompletedRecord(PhaseLabel("convert", k), count)>>

\* the records of a loop over total_items sound files in sub-batches of
\* batch_size, no snapshot being critical
LoopRecords(total_items, batch_size) ==
    Concat([k \in 1..RangeLen(total_items, batch_size) |->
               SubBatchRecords(k - 1, Min(batch_size, total_items - (k - 1) * batch_size))])

\* process() is not running
ProcessIdle ==
    /\ kind = [f \in 1..MaxFaulty |-> "ok"]
    /\ extracted_files = <<>>
    /\ gen_i = 0 /\ gen_step = 0 /\ gen_batch_size = 0
    /\ batch_idx = -1
    /\ file_batch = <<>>
    /\ yielded = <<>>
    /\ renamed_files = <<>> /\ filtered_files = <<>> /\ converted_files = <<>>
    /\ total_renamed = 0 /\ total_filtered = 0 /\ total_converted = 0
    /\ results = <<>>
    /\ ckpts = <<>>
    /\ dirs = {}
    /\ rm_failed = {}
    /\ converted_dir = {}
    /\ package = <<>>
    /\ err = ""
    /\ ret = <<>>
    /\ calls = <<>>
    /\ renamed_dir = <<>>
    /\ filter_input = <<>>
    /\ memory_info = 0
    /\ mem_calls = <<>>

procVars == <<kind, extracted_files, genVars, stageVars, totals, results, ckpts, fsVars,
              err, ret, rest>>

StoreInit ==
    /\ config \in [memory_batch_size : BatchSizes,
                   delete_after_packaging : {TRUE},
                   directory_keys : {{"temp_directory", "report_directory"}},
                   enable_checkpoints : BOOLEAN]
    /\ store_writable \in BOOLEAN
    /\ (~config.enable_checkpoints => store_writable)
    /\ source_count \in 1..SmallFiles
    /\ pc = "store"
    /\ ProcessIdle
    /\ StoreEmpty
    /\ cp_todo = LoopRecords(source_count, config.memory_batch_size)
    /\ ParallelIdle
    /\ NoInvocations
    /\ ObjectsIdle

\* time passes
StoreTick ==
    /\ pc = "store"
    /\ now < MaxClock
    /\ now' = now + 1
    /\ UNCHANGED <<inputs, pc, procVars, parVars, invVars, apiVars, cp_files, cp_index, cp_todo, cp_returned,
                   cp_result, cp_clients>>

\* the client's next save_checkpoint(batch_id, state_data)
StoreSave ==
    /\ pc = "store"
    /\ cp_todo # <<>>
    /\ LET state_data == Head(cp_todo)
           written == WriteCheckpoint(cp_files, cp_index, BatchId, state_data, now)
       IN  /\ cp_files' = written.files
           /\ cp_index' = written.index
           /\ cp_returned' = Append(cp_returned, [state |-> state_data, path |-> written.path])
           /\ cp_result' = [call |-> "save_checkpoint", batch_id |-> BatchId,
                            value |-> written.path]
    /\ cp_todo' = Tail(cp_todo)
    /\ UNCHANGED <<inputs, pc, procVars, parVars, invVars, apiVars, now, cp_clients>>

StoreNext == StoreTick \/ StoreSave

StoreSpec == StoreInit /\ [][StoreNext]_vars

\* ------------------------------------- the operations of CheckpointManager
\* save_checkpoint, get_latest_checkpoint, list_checkpoints and
\* cleanup_old_checkpoints, called in any order by the client of a batch on
\* a checkpoint directory in which the client of a second batch saves its
\* records; the index file of the batch can be lost or damaged from outside.
MaxSaves == 3           \* the clients save at most MaxSaves records in all
MaxKeep == 2            \* cleanup_old_checkpoints is asked to keep 1..MaxKeep

\* a second batch whose records share the checkpoint directory
OtherBatchId == "other"

BatchIds == {BatchId, OtherBatchId}

\* list_checkpoints() called without a batch_id (the default, None)
NoBatchId == "None"

\* the n-th record the clients hand to save_checkpoint
ClientRecord(n) == [phase |-> <<"client", n>>, status |-> "completed"]

\* p.stat().st_mtime, line 163: a record file is written only by
\* save_checkpoint, during the second its name carries, so the modification
\* times of two record files are ordered as those seconds
Mtime(filename) == filename[2]

\* a glob whose pattern leaves the batch_id out
Glob_AnyBatch(files, batch_id) == DOMAIN files

\* Path(checkpoint_dir).glob(pattern), lines 156-157 and 193-194: pattern
\* f"{batch_id}_*.checkpoint", or "*.checkpoint" when batch_id is None
Glob(files, batch_id) ==
    {filename \in DOMAIN files : batch_id = NoBatchId \/ filename[1] = batch_id}

\* x goes behind the entries of the descending list whose timestamp is not
\* smaller than its own
InsertDescending(sorted, x) ==
    LET k == Cardinality({j \in 1..Len(sorted) : sorted[j].timestamp >= x.timestamp})
    IN  SubSeq(sorted, 1, k) \o <<x>> \o SubSeq(sorted, k + 1, Len(sorted))

\* sorted(checkpoints, key=lambda x: x['timestamp'], reverse=True), line 146:
\* the sort is stable, entries of one timestamp keep their order
RECURSIVE SortedByTimestamp(_)
SortedByTimestamp(checkpoints) ==
    IF checkpoints = <<>> THEN <<>>
    ELSE InsertDescending(SortedByTimestamp(SubSeq(checkpoints, 1, Len(checkpoints) - 1)),
                          checkpoints[Len(checkpoints)])

\* get_latest_checkpoint without lines 150 and 155-164: the index's answer
\* is returned without looking at the directory
GetLatestCheckpoint_IndexOnly(files, index, batch_id) ==
    IF ~config.enable_checkpoints THEN None
    ELSE IF IndexReadable(index, batch_id) /\ index[batch_id].checkpoints # <<>>
    THEN SortedByTimestamp(index[batch_id].checkpoints)[1].filename
    ELSE None

\* get_latest_checkpoint lines 134-164
GetLatestCheckpoint(files, index, batch_id) ==
    IF ~config.enable_checkpoints THEN None
    ELSE LET latest == IF IndexReadable(index, batch_id) /\ index[batch_id].checkpoints # <<>>
                       THEN SortedByTimestamp(index[batch_id].checkpoints)[1].filename
                       ELSE None
             checkpoint_files == Glob(files, batch_id)
         IN  IF latest # None /\ latest \in DOMAIN files THEN latest
             ELSE IF checkpoint_files = {} THEN None
             ELSE CHOOSE p \in checkpoint_files :
                      \A q \in checkpoint_files : Mtime(q) <= Mtime(p)

\* lines 196-219: one entry per file the glob found, sorted by timestamp
\* descending; files of different batches that carry the same timestamp come
\* in the order the directory listing gave them, which is any order
ScanListings(checkpoint_files) ==
    LET n == Cardinality(checkpoint_files)
    IN  {[j \in 1..n |-> CheckpointInfo(order[j][1], order[j][2])] :
            order \in {o \in [1..n -> checkpoint_files] :
                          /\ \A i, j \in 1..n : i # j => o[i] # o[j]
                          /\ \A i, j \in 1..n : i < j => o[i][2] >= o[j][2]}}

\* list_checkpoints lines 166-219: the lists the call can return
ListCheckpoints(files, index, batch_id) ==
    IF ~config.enable_checkpoints THEN {<<>>}
    ELSE IF batch_id # NoBatchId /\ IndexReadable(index, batch_id)
    THEN {index[batch_id].checkpoints}
    ELSE ScanListings(Glob(files, batch_id))

\* cleanup_old_checkpoints lines 231-269, checkpoints being what line 235
\* got from list_checkpoints(batch_id)
CleanupOldCheckpoints(files, index, batch_id, keep_count, checkpoints) ==
    IF ~config.enable_checkpoints \/ Len(checkpoints) <= keep_count
    THEN [files |-> files, index |-> index, deleted_count |-> 0]
    ELSE LET checkpoints_to_delete == SubSeq(checkpoints, keep_count + 1, Len(checkpoints))
             removed == {checkpoints_to_delete[j].filename :
                            j \in 1..Len(checkpoints_to_delete)} \cap DOMAIN files
         IN  [files |-> [p \in DOMAIN files \ removed |-> files[p]],
              index |-> IF IndexReadable(index, batch_id)
                        THEN (batch_id :> IndexFile(SubSeq(index[batch_id].checkpoints, 1,
                                 Min(keep_count, Len(index[batch_id].checkpoints))))) @@ index
                        ELSE index,
              deleted_count |-> Cardinality(removed)]

ManagerInit ==
    /\ config \in [memory_batch_size : {MaxBatchSize},
                   delete_after_packaging : {TRUE},
                   directory_keys : {{"temp_directory", "report_directory"}},
                   enable_checkpoints : BOOLEAN]
    /\ store_writable = TRUE
    /\ source_count = 0
    /\ pc = "manager"
    /\ ProcessIdle
    /\ StoreEmpty
    /\ cp_todo = <<>>
    /\ ParallelIdle
    /\ NoInvocations
    /\ ObjectsIdle

managerFrame == <<inputs, pc, procVars, parVars, invVars, apiVars, cp_todo, cp_clients>>

\* time passes
ManagerTick ==
    /\ pc \in {"manager", "clients"}
    /\ now < MaxClock
    /\ now' = now + 1
    /\ UNCHANGED <<managerFrame, cp_files, cp_index, cp_returned, cp_result>>

\* save_checkpoint(batch_id, state_data) by the client of either batch
ManagerSave ==
    /\ pc = "manager"
    /\ Len(cp_returned) < MaxSaves
    /\ \E batch_id \in BatchIds :
         LET state_data == ClientRecord(Len(cp_returned) + 1)
             written == WriteCheckpoint(cp_files, cp_index, batch_id, state_data, now)
         IN  /\ cp_files' = written.files
             /\ cp_index' = written.index
             /\ cp_returned' = Append(cp_returned, [state |-> state_data, path |-> written.path])
             /\ cp_result' = [call |-> "save_checkpoint", batch_id |-> batch_id,
                              value |-> written.path]
    /\ UNCHANGED <<managerFrame, now>>

\* get_latest_checkpoint(batch_id)
ManagerGetLatest ==
    /\ pc = "manager"
    /\ cp_result' = [call |-> "get_latest_checkpoint", batch_id |-> BatchId,
                     value |-> GetLatestCheckpoint(cp_files, cp_index, BatchId)]
    /\ UNCHANGED <<managerFrame, now, cp_files, cp_index, cp_returned>>

\* list_checkpoints(batch_id) and list_checkpoints()
ManagerList ==
    /\ pc = "manager"
    /\ \E batch_id \in {BatchId, NoBatchId} :
         \E checkpoints \in ListCheckpoints(cp_files, cp_index, batch_id) :
             cp_result' = [call |-> "list_checkpoints", batch_id |-> batch_id,
                           value |-> checkpoints]
    /\ UNCHANGED <<managerFrame, now, cp_files, cp_index, cp_returned>>

\* cleanup_old_checkpoints(batch_id, keep_count)
ManagerCleanup ==
    /\ pc = "manager"
    /\ \E keep_count \in 1..MaxKeep :
         \E checkpoints \in ListCheckpoints(cp_files, cp_index, BatchId) :
             LET cleaned == CleanupOldCheckpoints(cp_files, cp_index, BatchId, keep_count,
                                                  checkpoints)
             IN  /\ cp_files' = cleaned.files
                 /\ cp_index' = cleaned.index
                 /\ cp_result' = [call |-> "cleanup_old_checkpoints", batch_id |-> BatchId,
                                  keep_count |-> keep_count,
                                  value |-> cleaned.deleted_count]
    /\ UNCHANGED <<managerFrame, now, cp_returned>>

\* the index file of the batch is deleted from outside
IndexLost ==
    /\ pc \in {"manager", "clients"}
    /\ BatchId \in DOMAIN cp_index
    /\ cp_index' = [b \in DOMAIN cp_index \ {BatchId} |-> cp_index[b]]
    /\ UNCHANGED <<managerFrame, now, cp_files, cp_returned, cp_result>>

\* the index file of the batch is damaged from outside: json.load rejects it
IndexGarbled ==
    /\ pc = "manager"
    /\ IndexReadable(cp_index, BatchId)
    /\ cp_index' = (BatchId :> GarbledIndex) @@ cp_index
    /\ UNCHANGED <<managerFrame, now, cp_files, cp_returned, cp_result>>

ManagerNext ==
    \/ ManagerTick
    \/ ManagerSave
    \/ ManagerGetLatest
    \/ ManagerList
    \/ ManagerCleanup
    \/ IndexLost
    \/ IndexGarbled

ManagerSpec == ManagerInit /\ [][ManagerNext]_vars

\* save_checkpoint and cleanup_old_checkpoints called in any order, with
\* nothing else touching the checkpoint directory
SaveCleanupNext ==
    \/ ManagerTick
    \/ ManagerSave
    \/ ManagerCleanup

SaveCleanupSpec == ManagerInit /\ [][SaveCleanupNext]_vars

\* ------------------------------------------ two clients, call by call
\* The clients of the two batches run on their own threads, and the file
\* operations of their CheckpointManager calls interleave: the client of
\* BatchId saves and cleans up, the client of OtherBatchId saves.

\* a client outside any call
ClientIdle ==
    [at |-> "idle", timestamp |-> 0, state_data |-> <<>>, index_data |-> <<>>,
     checkpoints_to_delete |-> <<>>, keep_count |-> 0, deleted_count |-> 0]

\* the save_checkpoint calls begun so far
SavesBegun ==
    Len(cp_returned) +
    Cardinality({b \in DOMAIN cp_clients : cp_clients[b].at \in {"dumped", "index_loaded"}})

ClientsInit ==
    /\ config = [memory_batch_size |-> MaxBatchSize, delete_after_packaging |-> TRUE,
                 directory_keys |-> {"temp_directory", "report_directory"},
                 enable_checkpoints |-> TRUE]
    /\ store_writable = TRUE
    /\ source_count = 0
    /\ pc = "clients"
    /\ ProcessIdle
    /\ now = 0 /\ cp_files = <<>> /\ cp_index = <<>> /\ cp_returned = <<>> /\ cp_result = <<>>
    /\ cp_clients = [b \in BatchIds |-> ClientIdle]
    /\ cp_todo = <<>>
    /\ ParallelIdle
    /\ NoInvocations
    /\ ObjectsIdle

clientsFrame == <<inputs, pc, procVars, parVars, invVars, apiVars, cp_todo, now>>

\* save_checkpoint lines 52-65: the timestamp is read and the record dumped
SaveDump(batch_id) ==
    /\ pc = "clients"
    /\ cp_clients[batch_id].at = "idle"
    /\ SavesBegun < MaxSaves
    /\ LET state_data == ClientRecord(SavesBegun + 1)
       IN  /\ cp_files' = (CheckpointFilename(batch_id, now) :> state_data) @@ cp_files
           /\ cp_clients' = [cp_clients EXCEPT ![batch_id] =
                  [@ EXCEPT !.at = "dumped", !.timestamp = now, !.state_data = state_data]]
    /\ UNCHANGED <<clientsFrame, cp_index, cp_returned, cp_result>>

\* lines 68-77: the batch's index file is read
SaveLoadIndex(batch_id) ==
    /\ pc = "clients"
    /\ cp_clients[batch_id].at = "dumped"
    /\ cp_clients' = [cp_clients EXCEPT ![batch_id] =
           [@ EXCEPT !.at = "index_loaded", !.index_data = LoadIndex(cp_index, batch_id)]]
    /\ UNCHANGED <<clientsFrame, cp_files, cp_index, cp_returned, cp_result>>

\* lines 80-99: the entry is appended, the index file rewritten, the path returned
SaveWriteIndex(batch_id) ==
    /\ pc = "clients"
    /\ cp_clients[batch_id].at = "index_loaded"
    /\ LET client == cp_clients[batch_id]
           checkpoint_path == CheckpointFilename(batch_id, client.timestamp)
       IN  /\ cp_index' = (batch_id :> IndexFile(Append(client.index_data,
                              CheckpointInfo(batch_id, client.timestamp)))) @@ cp_index
           /\ cp_returned' = Append(cp_returned,
                                    [state |-> client.state_data, path |-> checkpoint_path])
           /\ cp_result' = [call |-> "save_checkpoint", batch_id |-> batch_id,
                            value |-> checkpoint_path]
    /\ cp_clients' = [cp_clients EXCEPT ![batch_id] = ClientIdle]
    /\ UNCHANGED <<clientsFrame, cp_files>>

\* cleanup_old_checkpoints lines 235-242: the list is taken; the call returns
\* 0 when it is no longer than keep_count
CleanupList(batch_id) ==
    /\ pc = "clients"
    /\ cp_clients[batch_id].at = "idle"
    /\ \E keep_count \in 1..MaxKeep :
         \E checkpoints \in ListCheckpoints(cp_files, cp_index, batch_id) :
             IF Len(checkpoints) <= keep_count
             THEN /\ cp_result' = [call |-> "cleanup_old_checkpoints", batch_id |-> batch_id,
                                   keep_count |-> keep_count, value |-> 0]
                  /\ UNCHANGED cp_clients
             ELSE /\ cp_clients' = [cp_clients EXCEPT ![batch_id] =
                         [@ EXCEPT !.at = "removing", !.keep_count = keep_count,
                                   !.checkpoints_to_delete =
                                       SubSeq(checkpoints, keep_count + 1, Len(checkpoints))]]
                  /\ UNCHANGED cp_result
    /\ UNCHANGED <<clientsFrame, cp_files, cp_index, cp_returned>>

\* lines 244-251: one round of the deletion loop
CleanupRemove(batch_id) ==
    /\ pc = "clients"
    /\ cp_clients[batch_id].at = "removing"
    /\ cp_clients[batch_id].checkpoints_to_delete # <<>>
    /\ LET client == cp_clients[batch_id]
           cp_path == Head(client.checkpoints_to_delete).filename
           exists == cp_path \in DOMAIN cp_files
       IN  /\ cp_files' = IF exists THEN [p \in DOMAIN cp_files \ {cp_path} |-> cp_files[p]]
                          ELSE cp_files
           /\ cp_clients' = [cp_clients EXCEPT ![batch_id] =
                  [@ EXCEPT !.checkpoints_to_delete = Tail(@),
                            !.deleted_count = IF exists THEN @ + 1 ELSE @]]
    /\ UNCHANGED <<clientsFrame, cp_index, cp_returned, cp_result>>

\* lines 254-260, 266-269: the index file is read; without a readable index
\* the call returns
CleanupLoadIndex(batch_id) ==
    /\ pc = "clients"
    /\ cp_clients[batch_id].at = "removing"
    /\ cp_clients[batch_id].checkpoints_to_delete = <<>>
    /\ IF IndexReadable(cp_index, batch_id)
       THEN /\ cp_clients' = [cp_clients EXCEPT ![batch_id] =
                   [@ EXCEPT !.at = "index_cut",
                             !.index_data = SubSeq(cp_index[batch_id].checkpoints, 1,
                                 Min(cp_clients[batch_id].keep_count,
                                     Len(cp_index[batch_id].checkpoints)))]]
            /\ UNCHANGED cp_result
       ELSE /\ cp_result' = [call |-> "cleanup_old_checkpoints", batch_id |-> batch_id,
                             keep_count |-> cp_clients[batch_id].keep_count,
                             value |-> cp_clients[batch_id].deleted_count]
            /\ cp_clients' = [cp_clients EXCEPT ![batch_id] = ClientIdle]
    /\ UNCHANGED <<clientsFrame, cp_files, cp_index, cp_returned>>

\* lines 262-269: the index file is rewritten and the count returned
CleanupWriteIndex(batch_id) ==
    /\ pc = "clients"
    /\ cp_clients[batch_id].at = "index_cut"
    /\ cp_index' = (batch_id :> IndexFile(cp_clients[batch_id].index_data)) @@ cp_index
    /\ cp_result' = [call |-> "cleanup_old_checkpoints", batch_id |-> batch_id,
                     keep_count |-> cp_clients[batch_id].keep_count,
                     value |-> cp_clients[batch_id].deleted_count]
    /\ cp_clients' = [cp_clients EXCEPT ![batch_id] = ClientIdle]
    /\ UNCHANGED <<clientsFrame, cp_files, cp_returned>>

ClientsNext ==
    \/ ManagerTick
    \/ IndexLost
    \/ \E batch_id \in BatchIds : SaveDump(batch_id)
    \/ \E batch_id \in BatchIds : SaveLoadIndex(batch_id)
    \/ \E batch_id \in BatchIds : SaveWriteIndex(batch_id)
    \/ CleanupList(BatchId)
    \/ CleanupRemove(BatchId)
    \/ CleanupLoadIndex(BatchId)
    \/ CleanupWriteIndex(BatchId)

ClientsSpec == ClientsInit /\ [][ClientsNext]_vars

\* ------------------------------------------- ParallelProcessor.process_items
\* parallel_utils.py lines 18-60. The tasks of the parallel paths run on the
\* executor's workers and finish in any order.
MaxItems == 3           \* process_items is given at most MaxItems items

\* the value task_function returns for an item
TaskFunction(item) == [result_of |-> item]

Positions == 1..Len(par_items)

ParInit ==
    /\ config = [memory_batch_size |-> MaxBatchSize, delete_after_packaging |-> TRUE,
                 directory_keys |-> {"temp_directory", "report_directory"},
                 enable_checkpoints |-> TRUE]
    /\ store_writable = TRUE
    /\ source_count = 0
    /\ pc = "parallel"
    /\ ProcessIdle
    /\ StoreEmpty
    /\ cp_todo = <<>>
    /\ par_enabled \in BOOLEAN
    /\ par_callback \in BOOLEAN
    /\ par_items \in {[j \in 1..n |-> j] : n \in 0..MaxItems}
    /\ par_fails \in SUBSET (1..Len(par_items))
    /\ par_pc = "call"
    /\ par_applied = {} /\ par_taken = {}
    /\ par_results = <<>> /\ par_cb = <<>> /\ par_ret = <<>>
    /\ NoInvocations
    /\ ObjectsIdle

parFrame == <<inputs, pc, procVars, storeVars, invVars, apiVars, parInputs>>

\* lines 31, 42-47, 56-60: the path is chosen; the parallel paths hand every
\* item to the executor
ParCall ==
    /\ par_pc = "call"
    /\ par_pc' = IF ~par_enabled \/ Len(par_items) <= 1 THEN "sequential"
                 ELSE IF par_callback THEN "submit" ELSE "map"
    /\ UNCHANGED <<parFrame, par_applied, par_taken, par_results, par_cb, par_ret>>

\* lines 34-38: one iteration of the sequential loop; an exception of
\* task_function leaves process_items
SeqStep ==
    /\ par_pc = "sequential"
    /\ Len(par_results) < Len(par_items)
    /\ LET i == Len(par_results) + 1
           result == TaskFunction(par_items[i])
       IN  /\ par_applied' = par_applied \cup {i}
           /\ IF i \in par_fails
              THEN /\ par_pc' = "raised"
                   /\ UNCHANGED <<par_results, par_cb>>
              ELSE /\ par_results' = Append(par_results, result)
                   /\ par_cb' = IF par_callback THEN Append(par_cb, result) ELSE par_cb
                   /\ UNCHANGED par_pc
    /\ UNCHANGED <<parFrame, par_taken, par_ret>>

\* line 39
SeqReturn ==
    /\ par_pc = "sequential"
    /\ Len(par_results) = Len(par_items)
    /\ par_ret' = par_results
    /\ par_pc' = "returned"
    /\ UNCHANGED <<parFrame, par_applied, par_taken, par_results, par_cb>>

\* a worker of the executor runs task_function on a submitted item to its end
WorkerRun ==
    /\ par_pc \in {"submit", "map", "shutdown"}
    /\ \E i \in Positions \ par_applied : par_applied' = par_applied \cup {i}
    /\ UNCHANGED <<parFrame, par_pc, par_taken, par_results, par_cb, par_ret>>

\* lines 49-52: as_completed hands over a finished future; future.result()
\* raises the exception of its task
SubmitCollect ==
    /\ par_pc = "submit"
    /\ \E i \in par_applied \ par_taken :
         LET result == TaskFunction(par_items[i])
         IN  /\ par_taken' = par_taken \cup {i}
             /\ IF i \in par_fails
                THEN /\ par_pc' = "shutdown"
                     /\ UNCHANGED <<par_results, par_cb>>
                ELSE /\ par_cb' = Append(par_cb, result)
                     /\ par_results' = Append(par_results, result)
                     /\ UNCHANGED par_pc
    /\ UNCHANGED <<parFrame, par_applied, par_ret>>

\* line 53
SubmitReturn ==
    /\ par_pc = "submit"
    /\ par_taken = Positions
    /\ par_ret' = par_results
    /\ par_pc' = "returned"
    /\ UNCHANGED <<parFrame, par_applied, par_taken, par_results, par_cb>>

\* lines 58, 60: list() takes the next result of executor.map, which yields
\* them in the order of the items and raises the exception of a failed task
\* when its turn comes
MapCollect ==
    /\ par_pc = "map"
    /\ Len(par_results) < Len(par_items)
    /\ LET i == Len(par_results) + 1
       IN  /\ i \in par_applied
           /\ IF i \in par_fails
              THEN /\ par_pc' = "shutdown"
                   /\ UNCHANGED par_results
              ELSE /\ par_results' = Append(par_results, TaskFunction(par_items[i]))
                   /\ UNCHANGED par_pc
    /\ UNCHANGED <<parFrame, par_applied, par_taken, par_cb, par_ret>>

\* lines 58, 60: the list is complete
MapReturn ==
    /\ par_pc = "map"
    /\ Len(par_results) = Len(par_items)
    /\ par_ret' = par_results
    /\ par_pc' = "returned"
    /\ UNCHANGED <<parFrame, par_applied, par_taken, par_results, par_cb>>

\* line 44: leaving the with block on an exception waits for the submitted
\* tasks, then the exception leaves process_items
Shutdown ==
    /\ par_pc = "shutdown"
    /\ par_applied = Positions
    /\ par_pc' = "raised"
    /\ UNCHANGED <<parFrame, par_applied, par_taken, par_results, par_cb, par_ret>>

ParNext ==
    \/ ParCall
    \/ SeqStep \/ SeqReturn
    \/ WorkerRun
    \/ SubmitCollect \/ SubmitReturn
    \/ MapCollect \/ MapReturn
    \/ Shutdown

ParSpec == ParInit /\ [][ParNext]_vars

\* -------------------------------------- concurrent invocations of process()
\* batch_processor.py lines 71-89 and 208-216: two process() calls that share
\* the temp directory and the checkpoint directory, followed through the
\* paths they write and remove under the batch_id each of them generated.
MaxBatchNumbers == 2    \* random.randint draws one of MaxBatchNumbers numbers

Invocations == {1, 2}

BatchNumbers == 1..MaxBatchNumbers

\* line 82: f"batch{random.randint(10000000, 99999999)}"
GeneratedBatchId(number) == <<"batch", number>>

\* what process() writes under its batch_id, in the order of the first write:
\* the checkpoint index (line 102), then the four scratch directories
BatchPaths == <<"index", "extracted", "renamed", "filtered", "converted">>

\* f"{batch_id}_index.json", f"{batch_id}_extracted", ...
PathOf(batch_id, name) == <<batch_id, name>>

InvocationsInit ==
    /\ config \in [memory_batch_size : {MaxBatchSize},
                   delete_after_packaging : BOOLEAN,
                   directory_keys : {{"temp_directory", "report_directory"}},
                   enable_checkpoints : {TRUE}]
    /\ store_writable = TRUE
    /\ source_count = 0
    /\ pc = "invocations"
    /\ ProcessIdle
    /\ StoreEmpty
    /\ cp_todo = <<>>
    /\ ParallelIdle
    /\ invocations \in [Invocations ->
           [at : {"called"},
            resume_from : {None} \cup {GeneratedBatchId(n) : n \in BatchNumbers},
            batch_id : {None},
            written : {0}]]
    /\ shared_paths = <<>>
    /\ ObjectsIdle

invocationsFrame == <<inputs, pc, procVars, storeVars, parVars, apiVars>>

\* line 82: the batch_id is drawn; resume_from is not read
GenerateBatchId(p) ==
    /\ pc = "invocations"
    /\ invocations[p].at = "called"
    /\ \E number \in BatchNumbers :
         invocations' = [invocations EXCEPT ![p] =
             [@ EXCEPT !.at = "running", !.batch_id = GeneratedBatchId(number)]]
    /\ UNCHANGED <<invocationsFrame, shared_paths>>

\* lines 102-152: the run reaches the next path it writes under its batch_id
WritePath(p) ==
    /\ pc = "invocations"
    /\ invocations[p].at = "running"
    /\ invocations[p].written < Len(BatchPaths)
    /\ LET path == PathOf(invocations[p].batch_id, BatchPaths[invocations[p].written + 1])
           writers == IF path \in DOMAIN shared_paths THEN shared_paths[path] ELSE {}
       IN  shared_paths' = (path :> (writers \cup {p})) @@ shared_paths
    /\ invocations' = [invocations EXCEPT ![p] = [@ EXCEPT !.written = @ + 1]]
    /\ UNCHANGED invocationsFrame

\* lines 208-216: the run ends, by return or by exception, and its finally
\* clause removes the scratch directories named by its batch_id
CleanupScratch(p) ==
    /\ pc = "invocations"
    /\ invocations[p].at = "running"
    /\ LET removed == IF config.delete_after_packaging
                      THEN {PathOf(invocations[p].batch_id, d) : d \in ScratchDirs}
                      ELSE {}
       IN  shared_paths' = [path \in DOMAIN shared_paths \ removed |-> shared_paths[path]]
    /\ invocations' = [invocations EXCEPT ![p] = [@ EXCEPT !.at = "returned"]]
    /\ UNCHANGED invocationsFrame

InvocationsNext ==
    \E p \in Invocations : GenerateBatchId(p) \/ WritePath(p) \/ CleanupScratch(p)

InvocationsSpec == InvocationsInit /\ [][InvocationsNext]_vars

\* ------------------------------------------ the settings of a BatchProcessor
\* batch_processor.py lines 33-69 and 492-555: a BatchProcessor is built from
\* a config dict, its setters write into that dict, and process() runs with
\* what its components read from the dict when they were built.
MaxCalls == 3    \* calls made on one BatchProcessor object

DefaultMinResolution == 800

DefaultIntervalMinutes == 10

\* the thresholds of the filter tests
Thresholds == {800, 900}

\* the images of the filter tests (1024x768, 640x480, 800x600, 600x900), two
\* square ones and a file Image.open cannot read
Images ==
    {[readable |-> TRUE, width |-> 1024, height |-> 768],
     [readable |-> TRUE, width |-> 640, height |-> 480],
     [readable |-> TRUE, width |-> 800, height |-> 600],
     [readable |-> TRUE, width |-> 600, height |-> 900],
     [readable |-> TRUE, width |-> 1024, height |-> 1024],
     [readable |-> TRUE, width |-> 800, height |-> 800],
     [readable |-> FALSE, width |-> 0, height |-> 0]}

\* config.get(key, default) on a dict, a function whose domain is its keys
ConfigGet(dict, key, default) == IF key \in DOMAIN dict THEN dict[key] ELSE default

\* dict[key] = value
ConfigSet(dict, key, value) == (key :> value) @@ dict

\* the dicts holding key with one of the values, or not holding it
WithKey(key, values) == {<<>>} \cup {key :> v : v \in values}

\* the config dicts a BatchProcessor is built from, as far as the filter and
\* the checkpointing read them
ProcessorConfigs ==
    {m @@ e @@ u : m \in WithKey("min_resolution", Thresholds),
                   e \in WithKey("enable_checkpoints", BOOLEAN),
                   u \in WithKey("use_checkpointing", BOOLEAN)}

\* filter.py line 29, and lines 30-32 for a file that cannot be opened
MeetsCriteriaAt(image, min_resolution) ==
    /\ image.readable
    /\ image.width >= min_resolution /\ image.height >= min_resolution

\* BatchProcessor.__init__ with Filter.__init__ and CheckpointManager.__init__:
\* every component keeps the dict and copies the values it reads from it
NewBatchProcessor(dict) ==
    [config |-> dict,
     filter |-> [min_resolution |-> ConfigGet(dict, "min_resolution", DefaultMinResolution)],
     checkpoint_manager |-> [enable_checkpoints |-> ConfigGet(dict, "enable_checkpoints", TRUE)],
     use_checkpointing |-> ConfigGet(dict, "use_checkpointing", TRUE)]

\* one call on the object, with its argument and what it gave
Call(name, arg, result) == [call |-> name, arg |-> arg, result |-> result]

ProcessorInit ==
    /\ config \in [memory_batch_size : {MaxBatchSize},
                   delete_after_packaging : {TRUE},
                   directory_keys : {{"temp_directory", "report_directory"}},
                   enable_checkpoints : {TRUE}]
    /\ store_writable = TRUE
    /\ source_count = 0
    /\ pc = "processor"
    /\ ProcessIdle
    /\ StoreEmpty
    /\ cp_todo = <<>>
    /\ ParallelIdle
    /\ NoInvocations
    /\ \E dict \in ProcessorConfigs : processor = NewBatchProcessor(dict)
    /\ processor_calls = <<>>
    /\ reports = <<>> /\ comparison = <<>>
    /\ packager = <<>>

processorFrame == <<inputs, pc, procVars, storeVars, parVars, invVars, reports, comparison, packager>>

\* lines 492-502
FilterByResolution(min_resolution) ==
    /\ pc = "processor"
    /\ Len(processor_calls) < MaxCalls
    /\ processor' = [processor EXCEPT
                       !.config = ConfigSet(@, "min_resolution", min_resolution)]
    /\ processor_calls' = Append(processor_calls,
                                 Call("filter_by_resolution", min_resolution, "self"))
    /\ UNCHANGED processorFrame

\* lines 543-555
EnableCheckpointing(enabled, interval_minutes) ==
    /\ pc = "processor"
    /\ Len(processor_calls) < MaxCalls
    /\ processor' = [processor EXCEPT
                       !.config = ConfigSet(ConfigSet(@, "use_checkpointing", enabled),
                                            "checkpoint_interval", interval_minutes)]
    /\ processor_calls' = Append(processor_calls,
                                 Call("enable_checkpointing", enabled, "self"))
    /\ UNCHANGED processorFrame

\* process() on a source holding one image, as far as the settings decide it:
\* line 139 hands the image to self.filter, whose meets_criteria compares with
\* self.min_resolution, and every save_checkpoint of the run (lines 102-185)
\* writes a record unless self.enable_checkpoints of the manager is False
\* (checkpoint_utils.py lines 47-48)
ProcessImage(image) ==
    /\ pc = "processor"
    /\ Len(processor_calls) < MaxCalls
    /\ processor_calls' = Append(processor_calls,
           Call("process", image,
                [accepted |-> MeetsCriteriaAt(image, processor.filter.min_resolution),
                 saved |-> processor.checkpoint_manager.enable_checkpoints]))
    /\ UNCHANGED <<processor, processorFrame>>

ProcessorNext ==
    \/ \E min_resolution \in Thresholds : FilterByResolution(min_resolution)
    \/ \E enabled \in BOOLEAN : EnableCheckpointing(enabled, DefaultIntervalMinutes)
    \/ \E image \in Images : ProcessImage(image)

ProcessorSpec == ProcessorInit /\ [][ProcessorNext]_vars

\* ------------------------------------------------------- compare_batches
\* batch_processor.py lines 306-421: two report files are loaded, their
\* statistics are compared and the comparison is written and returned; None
\* is returned when anything in the method raised.
MaxStat == 3    \* largest value of a statistic in a report

\* line 346-349
NumericStats ==
    {"total_images", "processed_images", "filtered_out", "avg_width", "avg_height", "output_size"}

\* the stats dicts of the reports tried: two of the statistics compare_batches
\* names, each present or not, and a count it does not name
StatsDicts ==
    {t @@ p @@ r : t \in WithKey("total_images", 0..MaxStat),
                   p \in WithKey("processed_images", 0..MaxStat),
                   r \in WithKey("renamed", {1})}

\* what json.load gives for a report file
Reports ==
    {b @@ s : b \in WithKey("batch_id", {"batch1", "batch2"}),
              s \in WithKey("stats", StatsDicts)}

\* f"{stat}_diff"
DiffKey(stat) == stat \o "_diff"

\* round(n / d, 0) for d > 0, a tie going to the even neighbour
RoundDiv(n, d) ==
    LET q == n \div d
        r == n % d
    IN  IF 2 * r < d THEN q
        ELSE IF 2 * r > d THEN q + 1
        ELSE IF q % 2 = 0 THEN q ELSE q + 1

\* lines 361-362: round(((second - first) / first) * 100, 2), in hundredths
PercentChange_Truncated(first, second) == ((second - first) * 10000) \div first

PercentChange(first, second) == RoundDiv((second - first) * 10000, first)

\* lines 352-355 and 359-362: the statistics compared, and those with a
\* percent change
Compared(stats1, stats2) == NumericStats \cap DOMAIN stats1 \cap DOMAIN stats2

WithPercent(stats1, stats2) == {stat \in Compared(stats1, stats2) : stats1[stat] > 0}

\* lines 379-393: the summary lines on the two counts
SummaryLine(diffs, stat, more, fewer) ==
    IF DiffKey(stat) \notin DOMAIN diffs \/ diffs[DiffKey(stat)] = 0 THEN <<>>
    ELSE IF diffs[DiffKey(stat)] > 0 THEN <<more>> ELSE <<fewer>>

\* lines 324-403: the comparison dict; the timestamp is left out
Comparison(batch1, batch2) ==
    LET stats1 == batch1["stats"]
        stats2 == batch2["stats"]
        diffs == [key \in {DiffKey(stat) : stat \in Compared(stats1, stats2)} |->
                     LET stat == CHOOSE st \in Compared(stats1, stats2) : DiffKey(st) = key
                     IN  stats2[stat] - stats1[stat]]
    IN  [batches |-> (batch1["batch_id"] :> batch1) @@ (batch2["batch_id"] :> batch2),
         comparison |->
             [diffs |-> diffs,
              percent_changes |-> [stat \in WithPercent(stats1, stats2) |->
                                      PercentChange(stats1[stat], stats2[stat])],
              summary |-> SummaryLine(diffs, "total_images", "more images", "fewer images")
                          \o SummaryLine(diffs, "processed_images",
                                         "processed more images", "processed fewer images")]]

\* lines 316-421
CompareBatches(batch1, batch2, report_dir_writable) ==
    IF \E key \in {"batch_id", "stats"} : key \notin DOMAIN batch1 \/ key \notin DOMAIN batch2
    THEN None
    ELSE IF ~report_dir_writable THEN None
    ELSE Comparison(batch1, batch2)

CompareInit ==
    /\ config \in [memory_batch_size : {MaxBatchSize},
                   delete_after_packaging : {TRUE},
                   directory_keys : {{"temp_directory", "report_directory"}},
                   enable_checkpoints : {TRUE}]
    /\ store_writable = TRUE
    /\ source_count = 0
    /\ pc = "compare"
    /\ ProcessIdle
    /\ StoreEmpty
    /\ cp_todo = <<>>
    /\ ParallelIdle
    /\ NoInvocations
    /\ processor = <<>> /\ processor_calls = <<>>
    /\ reports \in [batch1 : Reports, batch2 : Reports, report_dir_writable : BOOLEAN]
    /\ comparison = <<>>
    /\ packager = <<>>

\* the call compare_batches(batch1_report, batch2_report)
Compare ==
    /\ pc = "compare"
    /\ comparison = <<>>
    /\ comparison' = [returned |->
                         CompareBatches(reports.batch1, reports.batch2, reports.report_dir_writable)]
    /\ UNCHANGED <<inputs, pc, procVars, storeVars, parVars, invVars,
                   processor, processor_calls, reports, packager>>

CompareSpec == CompareInit /\ [][Compare]_vars

\* ------------------------------------------------------- Packager.process
\* packager.py lines 108-152: one call of Packager.process, followed file
\* operation by file operation: create_package writes the archive and returns
\* its path or None, then cleanup_files removes the packaged files one by one.
MaxPaths == 3    \* paths handed to Packager.process

PackagePath == "package.zip"

\* lines 127 and 133: cleanup_files is called when create_package returned a
\* path and delete_after_packaging is set
ShouldCleanup_Regardless(package_path, delete_after_packaging) == delete_after_packaging

ShouldCleanup(package_path, delete_after_packaging) ==
    package_path # "None" /\ delete_after_packaging

PackagerInit ==
    /\ config \in [memory_batch_size : {MaxBatchSize},
                   delete_after_packaging : BOOLEAN,
                   directory_keys : {{"temp_directory", "report_directory"}},
                   enable_checkpoints : {TRUE}]
    /\ store_writable = TRUE
    /\ source_count = 0
    /\ pc = "packager"
    /\ ProcessIdle
    /\ StoreEmpty
    /\ cp_todo = <<>>
    /\ ParallelIdle
    /\ NoInvocations
    /\ processor = <<>> /\ processor_calls = <<>>
    /\ reports = <<>> /\ comparison = <<>>
    /\ \E n \in 0..MaxPaths :
         \E files \in SUBSET (1..n) :
           \E undeletable \in SUBSET files :
             packager = [at |-> "called",
                         paths |-> [j \in 1..n |-> j],
                         files |-> files,
                         undeletable |-> undeletable,
                         archive |-> {},
                         package_path |-> "None",
                         next |-> 1,
                         deleted_files |-> <<>>,
                         ret |-> <<>>]

packagerFrame == <<inputs, pc, procVars, storeVars, parVars, invVars,
                   processor, processor_calls, reports, comparison>>

\* line 125, create_package lines 27-76: every path that is a file is written
\* to the archive and the archive's path is returned
CreatePackageReturns ==
    /\ pc = "packager"
    /\ packager.at = "called"
    /\ \E include_metadata \in BOOLEAN :
         packager' = [packager EXCEPT
             !.at = "created",
             !.archive = CreatePackage(Range(packager.paths) \cap packager.files,
                                       include_metadata),
             !.package_path = PackagePath]
    /\ UNCHANGED packagerFrame

\* create_package lines 78-80: makedirs, ZipFile or one of the writes raised;
\* the archive holds what was written until then and None is returned
CreatePackageFails ==
    /\ pc = "packager"
    /\ packager.at = "called"
    /\ \E written \in 0..Len(packager.paths) :
         packager' = [packager EXCEPT
             !.at = "created",
             !.archive = {<<"file", f>> : f \in {packager.paths[j] : j \in 1..written}
                                                 \cap packager.files}]
    /\ UNCHANGED packagerFrame

\* lines 127-133 and 91-92: cleanup_files is entered, or skipped
CleanupBegin ==
    /\ pc = "packager"
    /\ packager.at = "created"
    /\ packager' = [packager EXCEPT
           !.at = IF ShouldCleanup(packager.package_path, config.delete_after_packaging)
                  THEN "cleanup" ELSE "return"]
    /\ UNCHANGED packagerFrame

\* cleanup_files lines 95-101: one turn of the loop; a path that is a file is
\* removed, unless os.remove raises, which is only printed
CleanupFile ==
    /\ pc = "packager"
    /\ packager.at = "cleanup"
    /\ packager.next <= Len(packager.paths)
    /\ LET file_path == packager.paths[packager.next]
           removed == file_path \in packager.files \ packager.undeletable
       IN  packager' = [packager EXCEPT
               !.next = @ + 1,
               !.files = IF removed THEN @ \ {file_path} ELSE @,
               !.deleted_files = IF removed THEN Append(@, file_path) ELSE @]
    /\ UNCHANGED packagerFrame

\* cleanup_files line 106
CleanupReturns ==
    /\ pc = "packager"
    /\ packager.at = "cleanup"
    /\ packager.next > Len(packager.paths)
    /\ packager' = [packager EXCEPT !.at = "return"]
    /\ UNCHANGED packagerFrame

\* lines 139-152
PackagerReturns ==
    /\ pc = "packager"
    /\ packager.at = "return"
    /\ packager' = [packager EXCEPT
           !.at = "returned",
           !.ret = IF packager.package_path # "None"
                   THEN [package_path |-> packager.package_path,
                         file_count |-> Len(packager.paths),
                         deleted_files |-> packager.deleted_files]
                   ELSE [package_path |-> "None",
                         file_count |-> Len(packager.paths),
                         error |-> "Failed to create package"]]
    /\ UNCHANGED packagerFrame

PackagerNext ==
    \/ CreatePackageReturns \/ CreatePackageFails
    \/ CleanupBegin \/ CleanupFile \/ CleanupReturns
    \/ PackagerReturns

PackagerSpec == PackagerInit /\ [][PackagerNext]_vars

\* ----------------------------------------- reading the checkpoint sequence
\* The record process() writes in its except clause marks the error in its
\* phase key and has no status key; it is the batch's error record.
StatusOf(state) ==
    IF "status" \in DOMAIN state THEN state.status
    ELSE IF state.phase = <<"error">> THEN "error" ELSE "none"

StoreAccepts == config.enable_checkpoints /\ store_writable

\* among the first n save_checkpoint calls of the batch one was for the
\* record (phase, status), and it was written if the store takes writes
SavedAmong(n, phase, status) ==
    \E j \in 1..n :
        /\ ckpts[j].state.phase = phase
        /\ StatusOf(ckpts[j].state) = status
        /\ StoreAccepts => ckpts[j].saved

Saved(phase, status) == SavedAmong(Len(ckpts), phase, status)

InSubBatch ==
    pc \in {"rename_start", "rename_run", "filter_start", "filter_run",
            "convert_start", "convert_run"}

\* C1: stages never run out of order. While the filter stage of sub-batch k
\* is at or past its beginning, the completed checkpoint of rename_batch_k
\* has been saved; likewise convert after filter_batch_k; every sub-batch
\* stage comes after the completed checkpoint of extract; and packaging
\* begins only when the generator is exhausted and the completed checkpoint
\* of the last sub-batch's convert has been saved.
C1_StagesInOrder ==
    /\ pc \in {"filter_start", "filter_run"} =>
           Saved(PhaseLabel("rename", batch_idx), "completed")
    /\ pc \in {"convert_start", "convert_run"} =>
           Saved(PhaseLabel("filter", batch_idx), "completed")
    /\ InSubBatch => Saved(<<"extract">>, "completed")
    /\ pc \in {"package_start", "package_run"} =>
           /\ gen_i >= Len(extracted_files)
           /\ batch_idx = Len(yielded) - 1
           /\ batch_idx >= 0
           /\ Saved(PhaseLabel("convert", batch_idx), "completed")

C1_Witness == pc = "package_start" /\ batch_idx >= 1 /\ StoreAccepts

\* C2: sub-batches run strictly one after another. Every save of a
\* rename_batch_m record with m >= 1 comes after the save of the completed
\* record of convert_batch_(m-1), and the rename stage of sub-batch m is
\* entered only with that record saved.
C2_SubBatchesSequential ==
    /\ \A m \in 1..batch_idx : \A j \in 1..Len(ckpts) :
           ckpts[j].state.phase = PhaseLabel("rename", m) =>
               SavedAmong(j - 1, PhaseLabel("convert", m - 1), "completed")
    /\ (pc \in {"rename_start", "rename_run"} /\ batch_idx >= 1) =>
           Saved(PhaseLabel("convert", batch_idx - 1), "completed")

C2_Witness == pc = "rename_run" /\ batch_idx = 2 /\ StoreAccepts

\* C3: the sub-batches yielded partition the extracted list. The sub-batches
\* yielded so far, concatenated in order, are a prefix of the extracted list
\* (each is cut off the front of what is left, none skipped, none repeated),
\* and once the loop has ended they are the whole list.
C3_SubBatchesPartition ==
    LET seen == Concat(yielded)
    IN  /\ Len(seen) <= Len(extracted_files)
        /\ seen = SubSeq(extracted_files, 1, Len(seen))
        /\ pc = "package_start" => seen = extracted_files

\* C4: in the sequence of the batch's checkpoints that were written, every
\* completed record and every error record, the one written when an
\* exception aborts the batch included, has a started record with its own
\* phase label before it.
C4_StartedPrecedes ==
    \A j \in 1..Len(ckpts) :
        (ckpts[j].saved /\ StatusOf(ckpts[j].state) \in {"completed", "error"}) =>
            \E i \in 1..(j - 1) :
                /\ ckpts[i].saved
                /\ ckpts[i].state.phase = ckpts[j].state.phase
                /\ StatusOf(ckpts[i].state) = "started"

\* the extract phase has completed and yielded zero files
ExtractYieldedZero ==
    /\ results # <<>>
    /\ "extracted" \in DOMAIN results.stats
    /\ results.stats["extracted"] = 0

\* after an extract phase that yielded zero files process() is on its way
\* out with the result {error: message}, no sub-batch was yielded, only
\* extract checkpoints were saved, no later stage left a directory or a
\* count, and no package exists
EmptyInputStops(message) ==
    ExtractYieldedZero =>
        /\ pc \in {"finally", "done"}
        /\ ret = [error |-> message]
        /\ yielded = <<>>
        /\ \A j \in 1..Len(ckpts) : ckpts[j].state.phase = <<"extract">>
        /\ dirs \subseteq {"extracted"}
        /\ total_renamed = 0 /\ total_filtered = 0 /\ total_converted = 0
        /\ package = <<>>

\* C5 as stated: on zero extracted files process() stops after extract with
\* the error field exactly "no valid images found", runs no later stage and
\* creates no package.
C5_EmptyInput_Original == EmptyInputStops("no valid images found")

\* C5 amended: the same, the error field being exactly
\* "No valid images found in source".
C5_EmptyInput == EmptyInputStops("No valid images found in source")

C5_Witness == pc = "done" /\ ExtractYieldedZero

\* C6: when a stage raises, nothing but the except and finally clauses runs
\* afterwards; the last checkpoint of the batch is then the error record
\* carrying the exception message, and the returned result is {error:
\* message}.
C6_ErrorRecorded ==
    /\ err # "" => pc \in {"except", "finally", "done"}
    /\ (err # "" /\ pc \in {"finally", "done"}) =>
           /\ Len(ckpts) > 0
           /\ StatusOf(ckpts[Len(ckpts)].state) = "error"
           /\ ckpts[Len(ckpts)].state.error = err
           /\ StoreAccepts => ckpts[Len(ckpts)].saved
           /\ ret = [error |-> err]

C6_Witness ==
    pc = "done" /\ err = "cannot create converted directory" /\ batch_idx = 1 /\ StoreAccepts

\* C7: with delete_after_packaging set, once process() has returned (after
\* a successful run, the empty-input return or a stage exception) a scratch
\* directory of the batch exists only if its removal failed.
C7_CleanupOnEveryExit ==
    (pc = "done" /\ config.delete_after_packaging) =>
        \A d \in ScratchDirs : d \in dirs => d \in rm_failed

C7_Witness ==
    /\ pc = "done" /\ config.delete_after_packaging
    /\ err = "cannot create converted directory"
    /\ dirs = {"renamed"}

\* C8: the returned result always holds the stage counts accumulated when
\* the run ended: whatever count process() had recorded is in the stats of
\* the result it returns.
C8_StatsAlwaysReturned ==
    pc = "done" =>
        /\ "stats" \in DOMAIN ret
        /\ \A key \in DOMAIN results.stats :
               key \in DOMAIN ret.stats /\ ret.stats[key] = results.stats[key]

\* C9: no exception crosses the process() boundary; process() returns a
\* populated result or a result with a non-empty error string.
C9_NoExceptionCrosses ==
    /\ pc # "raised"
    /\ pc = "done" =>
           \/ "error" \in DOMAIN ret /\ ret.error # ""
           \/ "stats" \in DOMAIN ret /\ "package" \in DOMAIN ret

\* C10: a single failing item never aborts its sub-batch. No exception of
\* one item's rename, inspection, copy or conversion reaches process(), and
\* when a sub-batch is through, each of its sound items has been renamed,
\* filtered and converted.
C10_ItemFailureNotFatal ==
    /\ err # "cannot copy file"
    /\ (pc = "gen" /\ batch_idx >= 0) =>
           \A f \in Range(file_batch) :
               KindOf(f) = "ok" =>
                   /\ f \in Range(DictKeys(renamed_files))
                   /\ f \in Range(filtered_files)
                   /\ f \in ConvertedOk(converted_files)

\* process() returned the populated result of a run that went through packaging
Completed == pc = "done" /\ "stats" \in DOMAIN ret /\ "packaged" \in DOMAIN ret.stats

\* C11: for every completed run the stage counts are non-increasing:
\* stats.extracted >= stats.renamed, stats.filtered <= stats.renamed and
\* stats.converted <= stats.filtered; and in every sub-batch the number of
\* files given to the filter equals the number renamed.
C11_CountsMonotone ==
    /\ Completed =>
           /\ ret.stats["extracted"] >= ret.stats["renamed"]
           /\ ret.stats["filtered"] <= ret.stats["renamed"]
           /\ ret.stats["converted"] <= ret.stats["filtered"]
    /\ pc \in {"convert_start", "convert_run"} => Len(filter_input) = Len(renamed_files)

\* C12: for a successful run the result has a non-null package path, and the
\* archive at that path holds exactly stats.converted entries: one per file
\* that was actually converted and nothing else.
C12_PackageMatchesConverted ==
    Completed =>
        /\ ret.package.package_path # "None"
        /\ package # <<>>
        /\ Cardinality(package.entries) = ret.stats["converted"]
        /\ \A e \in package.entries : e[1] = "file"

\* C13: sequence numbers are unique and contiguous from 1 within a whole
\* batch. When the sub-batch loop has ended no renamed file has replaced
\* another, so the renamed directory holds one file per rename counted, and
\* the numbers used are exactly 1..count(renamed).
C13_SequenceNumbersContiguous ==
    pc \in {"package_start", "package_run", "report"} =>
        /\ Cardinality(DOMAIN renamed_dir) = total_renamed
        /\ DOMAIN renamed_dir = 1..total_renamed

\* C14: data flows forward through the stages of a sub-batch. The paths the
\* filter stage inspects and copies are the renamed paths its sub-batch's
\* rename stage produced, and the paths the convert stage receives are the
\* filter stage's outputs.
C14_DataFlowsForward ==
    /\ pc \in {"convert_start", "convert_run"} =>
           filter_input = [j \in 1..Len(renamed_files) |-> RenamedPath(renamed_files[j].new)]
    /\ pc = "gen_resume" =>
           [j \in 1..Len(converted_files) |-> converted_files[j].src] = filtered_files

\* every extracted file is in the one sub-batch the generator yielded
FitsInOneSubBatch == Len(yielded) = 1 /\ yielded[1] = extracted_files

\* C15: execute(source) on a source whose files fit in one sub-batch runs
\* each of the six phases extract, rename, analyze, filter, convert and
\* package exactly once and in that order.
C15_SixPhasesOnceInOrder ==
    (Completed /\ FitsInOneSubBatch) =>
        calls = <<"extract", "rename", "analyze", "filter", "convert", "package">>

\* ------------------------------------------------- the batching step
\* a step of the generator from the memory check to its yield
YieldStep == pc = "gen" /\ pc' = "rename_start"

\* the step of the generator after its yield, when it is resumed
ResumeStep == pc = "gen_resume" /\ pc' = "gen"

\* the optimize_memory calls batch_generator made, among those of a log
OwnCalls(log) == SelectSeq(log, LAMBDA c : c.by = "batch_generator")

\* batch sizes above the floor, up to twice the largest configured one
SizesAboveFloor == (MinBatchSize + 1)..(2 * MaxBatchSize)

\* C17: when the memory snapshot is critical, the size recommended for a
\* current size N is at least the floor of 10 and, for every N above the
\* floor, strictly smaller than N; and optimize_memory(force=True) is
\* invoked in the same step.
C17_CriticalShrinks ==
    [][YieldStep /\ IsCriticalMemory(memory_info') =>
           /\ gen_batch_size' = ReducedBatchSize(gen_batch_size)
           /\ gen_batch_size' >= MinBatchSize
           /\ gen_batch_size > MinBatchSize => gen_batch_size' < gen_batch_size
           /\ \A N \in SizesAboveFloor :
                  ReducedBatchSize(N) < N /\ ReducedBatchSize(N) >= MinBatchSize
           /\ \E j \in 1..Len(mem_calls') :
                  mem_calls'[j].by = "batch_generator" /\ mem_calls'[j].force
      ]_vars

C17_Witness ==
    /\ pc = "rename_start" /\ IsCriticalMemory(memory_info)
    /\ gen_step = MaxBatchSize /\ gen_batch_size = ReducedBatchSize(MaxBatchSize)
    /\ gen_batch_size < gen_step
    /\ mem_calls # <<>> /\ mem_calls[1].force

\* C18 as stated: when the snapshot of a step is not critical the batch size
\* is left unchanged; if it shows pressure only, a non-forced reclamation is
\* invoked by the step, and if it shows neither flag the step performs no
\* garbage collection.
C18_NotCritical_Original ==
    [][/\ YieldStep /\ ~IsCriticalMemory(memory_info') =>
              gen_batch_size' = gen_batch_size
       /\ ResumeStep /\ ~IsCriticalMemory(memory_info) =>
              /\ IsLowMemory(memory_info) =>
                     \E j \in 1..Len(OwnCalls(mem_calls')) : ~OwnCalls(mem_calls')[j].force
              /\ ~IsLowMemory(memory_info) =>
                     \A j \in 1..Len(OwnCalls(mem_calls')) : ~OwnCalls(mem_calls')[j].collected
      ]_vars

\* C18 amended: when the snapshot of a step is not critical the batch size
\* is left unchanged and nothing is reclaimed before the yield; after the
\* sub-batch, whatever the snapshot showed, batch_generator invokes one
\* non-forced optimize_memory() if i + batch_size < total_items and none
\* otherwise.
C18_NotCritical ==
    [][/\ YieldStep /\ ~IsCriticalMemory(memory_info') =>
              gen_batch_size' = gen_batch_size /\ mem_calls' = <<>>
       /\ ResumeStep =>
              LET after == SubSeq(OwnCalls(mem_calls'), Len(OwnCalls(mem_calls)) + 1,
                                  Len(OwnCalls(mem_calls')))
              IN  IF (gen_i - gen_step) + gen_batch_size < Len(extracted_files)
                  THEN Len(after) = 1 /\ ~after[1].force
                  ELSE after = <<>>
      ]_vars

C18_Witness ==
    /\ pc = "gen" /\ batch_idx >= 0
    /\ IsLowMemory(memory_info) /\ ~IsCriticalMemory(memory_info)
    /\ gen_batch_size = gen_step
    /\ OwnCalls(mem_calls) # <<>>
    /\ ~OwnCalls(mem_calls)[1].force

\* ceil(n / b)
CeilDiv(n, b) == CHOOSE q \in 0..n : q * b >= n /\ (q - 1) * b < n

\* the records handed to the store so far and those still to come
LoopLog == [j \in 1..Len(cp_returned) |-> cp_returned[j].state] \o cp_todo

\* C16: with no memory pressure a batch of n items and memory_batch_size b
\* is split into exactly ceil(n/b) sub-batches; each sub-batch k has its own
\* started and completed record for each of rename_batch_k, filter_batch_k
\* and convert_batch_k; and, the store accepting writes, every one of these
\* records that was saved remains retrievable as a record of its own: its
\* file holds it, and no two of the records share a file.
C16_SubBatchCheckpointsKept ==
    LET n == source_count
        b == config.memory_batch_size
    IN  /\ Len(LoopLog) = 6 * CeilDiv(n, b)
        /\ \A k \in 0..(CeilDiv(n, b) - 1) :
               \A stage \in {"rename", "filter", "convert"} :
                   \A status \in {"started", "completed"} :
                       \E j \in 1..Len(LoopLog) :
                           /\ LoopLog[j].phase = PhaseLabel(stage, k)
                           /\ LoopLog[j].status = status
        /\ StoreAccepts =>
               \A j \in 1..Len(cp_returned) :
                   /\ cp_returned[j].path # None
                   /\ LoadCheckpoint(cp_files, cp_returned[j].path) = cp_returned[j].state
                   /\ \A i \in 1..(j - 1) : cp_returned[i].path # cp_returned[j].path

\* C19: process_items returns the results in input order: results[i] is the
\* result of the task function on items[i] for every i, whatever order the
\* workers finish in, with and without a callback.
C19_ResultsInInputOrder ==
    par_pc = "returned" =>
        par_ret = [i \in 1..Len(par_items) |-> TaskFunction(par_items[i])]

\* C20: an exception of the task function for one item does not crash
\* process_items. No exception leaves the call, and when it has returned the
\* task function was applied to every item, the result list is as long as
\* the input, and the slot of a failed item holds no task result.
C20_TaskFailureIsolated ==
    /\ par_pc # "raised"
    /\ par_pc = "returned" =>
           /\ par_applied = Positions
           /\ Len(par_ret) = Len(par_items)
           /\ \A i \in par_fails : par_ret[i] \notin {TaskFunction(par_items[j]) : j \in Positions}

\* ------------------------------------------------ the completion callback
\* the number of callback invocations made with the result of item i
CallbackCount(i) ==
    Cardinality({j \in 1..Len(par_cb) : par_cb[j] = TaskFunction(par_items[i])})

\* C21: when a callback is supplied, process_items invokes it exactly once
\* per input item on both paths, also for an item whose task function failed:
\* once the call is over, every item has exactly one callback invocation.
C21_CallbackOncePerItem ==
    (par_pc \in {"returned", "raised"} /\ par_callback) =>
        \A i \in Positions : CallbackCount(i) = 1

\* --------------------------------------------------- the store's contract
\* the saves that returned a path
SuccessfulSaves == {j \in 1..Len(cp_returned) : cp_returned[j].path # None}

\* C22: save_checkpoint is append-only: a save never overwrites or replaces
\* a record written by an earlier save, so after k successful saves of a
\* batch the directory holds k record files, each still holding the record
\* its save wrote, also when several saves fall into one clock second.
C22_SaveAppendOnly ==
    /\ Cardinality(DOMAIN cp_files) = Cardinality(SuccessfulSaves)
    /\ \A j \in SuccessfulSaves :
           LoadCheckpoint(cp_files, cp_returned[j].path) = cp_returned[j].state

\* the record get_latest_checkpoint(batch_id) leads to, None when it returns None
LatestRecord(files, index, batch_id) ==
    LoadCheckpoint(files, GetLatestCheckpoint(files, index, batch_id))

\* the clients' records are numbered in the order of their saves
SaveNumber(state_data) == state_data.phase[2]

\* the step is a save_checkpoint of the batch that returned a path
SavesRecordOf(batch_id) ==
    /\ Len(cp_returned') = Len(cp_returned) + 1
    /\ cp_result'.call = "save_checkpoint"
    /\ cp_result'.batch_id = batch_id
    /\ cp_result'.value # None

\* C23: over any sequence of save_checkpoint and cleanup_old_checkpoints
\* calls on a batch, successive get_latest_checkpoint results never go
\* backwards: no step of the store makes get_latest_checkpoint lead to a
\* record saved before the one it led to before the step, and after a save
\* it leads to the record just saved.
C23_LatestNeverGoesBackwards ==
    [][LET before == LatestRecord(cp_files, cp_index, BatchId)
           after == LatestRecord(cp_files', cp_index', BatchId)
       IN  /\ (before # None /\ after # None) => SaveNumber(after) >= SaveNumber(before)
           /\ SavesRecordOf(BatchId) => after = cp_returned'[Len(cp_returned')].state]_vars

\* the record files of a batch in the directory
RecordFiles(files, batch_id) == {filename \in DOMAIN files : filename[1] = batch_id}

\* the keep_count most recently saved of the batch's record files (all of
\* them when there are no more than keep_count)
MostRecent(files, batch_id, keep_count) ==
    {p \in RecordFiles(files, batch_id) :
        Cardinality({q \in RecordFiles(files, batch_id) :
                        SaveNumber(files[q]) > SaveNumber(files[p])}) < keep_count}

\* C24: cleanup_old_checkpoints(batch_id, keep) keeps the keep most recently
\* saved records of the batch, removes only older ones and returns the
\* number of records it removed, 0 when the batch has at most keep records.
C24_CleanupKeepsMostRecent ==
    \A keep_count \in 1..MaxKeep :
        \A checkpoints \in ListCheckpoints(cp_files, cp_index, BatchId) :
            LET cleaned == CleanupOldCheckpoints(cp_files, cp_index, BatchId, keep_count,
                                                 checkpoints)
                records == RecordFiles(cp_files, BatchId)
            IN  /\ RecordFiles(cleaned.files, BatchId) =
                       MostRecent(cp_files, BatchId, keep_count)
                /\ \A p \in DOMAIN cleaned.files : cleaned.files[p] = cp_files[p]
                /\ cleaned.deleted_count =
                       Cardinality(records \ RecordFiles(cleaned.files, BatchId))
                /\ Cardinality(records) <= keep_count => cleaned.deleted_count = 0

\* the list names its records most recent first
MostRecentFirst(checkpoints) ==
    \A i, j \in 1..Len(checkpoints) :
        i < j => checkpoints[i].timestamp >= checkpoints[j].timestamp

\* C25: list_checkpoints returns the records most recent first, with and
\* without a batch_id, from the batch's index file as from the directory scan.
C25_ListMostRecentFirst ==
    \A batch_id \in BatchIds \cup {NoBatchId} :
        \A checkpoints \in ListCheckpoints(cp_files, cp_index, batch_id) :
            MostRecentFirst(checkpoints)

\* the index of the batch is out of sync with its record files: the index
\* file is missing, does not parse, or names a record file that is gone
IndexOutOfSync(files, index, batch_id) ==
    \/ batch_id \notin DOMAIN index
    \/ ~index[batch_id].json
    \/ \E j \in 1..Len(index[batch_id].checkpoints) :
           index[batch_id].checkpoints[j].filename \notin DOMAIN files

\* C26: when the batch's index is out of sync with the stored records while
\* at least one record file of the batch exists, get_latest_checkpoint
\* returns the path of the most recently saved existing record of the batch,
\* not None and not a missing path.
C26_FallbackToScan ==
    (IndexOutOfSync(cp_files, cp_index, BatchId) /\ RecordFiles(cp_files, BatchId) # {}) =>
        LET path == GetLatestCheckpoint(cp_files, cp_index, BatchId)
        IN  /\ path \in RecordFiles(cp_files, BatchId)
            /\ MostRecent(cp_files, BatchId, 1) = {path}

\* get_latest_checkpoint has answered from the scan for a batch whose index
\* names, as its latest record, a file that is gone
C26_Witness ==
    /\ IndexReadable(cp_index, BatchId)
    /\ GetLatestCheckpoint_IndexOnly(cp_files, cp_index, BatchId) \notin DOMAIN cp_files
    /\ cp_result # <<>>
    /\ cp_result.call = "get_latest_checkpoint"
    /\ cp_result.value \in RecordFiles(cp_files, BatchId)

\* what the directory holds for a batch: its record files with their
\* contents and its index file
BatchState(files, index, batch_id) ==
    [records |-> [p \in RecordFiles(files, batch_id) |-> files[p]],
     index |-> IF batch_id \in DOMAIN index THEN index[batch_id] ELSE None]

\* C27: checkpoint operations are isolated per batch: no file operation of a
\* save_checkpoint or cleanup_old_checkpoints call for one batch, however it
\* interleaves with the calls for another batch, creates, overwrites,
\* deletes or reorders a record or an index entry of the other batch.
C27_PerBatchIsolation ==
    [][\A mine, other \in BatchIds :
           (mine # other /\ cp_clients'[mine] # cp_clients[mine]) =>
               BatchState(cp_files', cp_index', other) = BatchState(cp_files, cp_index, other)]_vars

\* the cleanup of one batch has deleted a record file while the client of
\* the other batch is in the middle of a save, its record dumped and its
\* index not yet rewritten
C27_Witness ==
    /\ pc = "clients"
    /\ cp_clients[BatchId].at = "removing"
    /\ cp_clients[BatchId].deleted_count >= 1
    /\ cp_clients[OtherBatchId].at = "index_loaded"
    /\ RecordFiles(cp_files, OtherBatchId) # {}

\* ------------------------------------------- a store that fails to write
\* what the stages make of one sub-batch
SubBatchOutcome(files) ==
    LET renamed == RenamerProcess(files)
        filtered == FilterProcess(DictKeys(renamed))
    IN  [renamed |-> renamed, filtered |-> filtered, converted |-> ConverterProcess(filtered)]

\* the outcome of every sub-batch the generator yielded; nothing in it
\* depends on what save_checkpoint did
Outcomes == [k \in 1..Len(yielded) |-> SubBatchOutcome(yielded[k])]

OutcomeStats ==
    LET converted == Len(Concat([k \in 1..Len(yielded) |-> Outcomes[k].converted]))
    IN  [extracted |-> source_count,
         renamed |-> Len(Concat([k \in 1..Len(yielded) |-> Outcomes[k].renamed])),
         filtered |-> Len(Concat([k \in 1..Len(yielded) |-> Outcomes[k].filtered])),
         converted |-> converted,
         packaged |-> converted]

OutcomeFiles == UNION {ConvertedOk(Outcomes[k].converted) : k \in 1..Len(yielded)}

OutcomeCalls ==
    <<"extract">> \o Concat([k \in 1..Len(yielded) |-> <<"rename", "filter", "convert">>])
                  \o <<"package">>

\* the records process() hands to save_checkpoint in a run that completes
OutcomeRecords ==
    <<StartedRecord(<<"extract">>), CompletedRecord(<<"extract">>, source_count)>>
    \o Concat([k \in 1..Len(yielded) |->
          <<StartedRecord(PhaseLabel("rename", k - 1)),
            CompletedRecord(PhaseLabel("rename", k - 1), Len(Outcomes[k].renamed)),
            StartedRecord(PhaseLabel("filter", k - 1)),
            CompletedRecord(PhaseLabel("filter", k - 1), Len(Outcomes[k].filtered)),
            StartedRecord(PhaseLabel("convert", k - 1)),
            CompletedRecord(PhaseLabel("convert", k - 1), Len(Outcomes[k].converted))>>])
    \o <<StartedRecord(<<"package">>),
         PackageCompletedRecord(PackagerProcess(OutcomeFiles, package # <<>>))>>

\* a save_checkpoint call of the run failed to write its record
SaveFailed == config.enable_checkpoints /\ \E j \in 1..Len(ckpts) : ~ckpts[j].saved

PathsOf(p) ==
    {PathOf(invocations[p].batch_id, BatchPaths[j]) : j \in 1..invocations[p].written}

\* C29: two process() invocations running concurrently never share a
\* batch_id, so no step of one of them writes, overwrites or deletes a
\* scratch directory or the checkpoint index of the other: while both run,
\* their batch_ids differ, and every path written by one that goes on
\* running is still there after the step, written by it alone.
C29_ConcurrentBatchIdsDiffer ==
    [][\A p, q \in Invocations :
           (p # q /\ invocations[p].at = "running" /\ invocations[q].at = "running") =>
               /\ invocations[p].batch_id # invocations[q].batch_id
               /\ invocations'[p].at = "running" =>
                      \A path \in PathsOf(p) :
                          path \in DOMAIN shared_paths' /\ shared_paths'[path] = {p}]_vars

\* C30: when process() is called with a resume hint naming a previous batch
\* it takes that batch_id instead of generating one, so the run's paths and
\* checkpoints are recorded under the batch_id of the original run.
C30_ResumeKeepsBatchId ==
    \A p \in Invocations :
        (invocations[p].at # "called" /\ invocations[p].resume_from # None) =>
            invocations[p].batch_id = invocations[p].resume_from

\* ------------------------------------------------- the filter's decision
\* C31: the filter accepts an image at threshold m exactly when the image's
\* width is at least m, whatever its height, as the filter tests expect:
\* 1024x768 and 800x600 pass at 800, only 1024x768 at 900, 640x480 and
\* 600x900 are rejected, and width = m passes.
C31_FilterMatchesTests ==
    \A i \in 1..Len(processor_calls) :
        processor_calls[i].call = "process" =>
            processor_calls[i].result.accepted =
                (/\ processor_calls[i].arg.readable
                 /\ processor_calls[i].arg.width >= processor.filter.min_resolution)

\* ------------------------------------------- the setters of a BatchProcessor
\* the setting a process() call at position j runs under: the argument of the
\* last call of the setter before it, if there is one
LastSet(setter, j) ==
    LET before == {i \in 1..(j - 1) : processor_calls[i].call = setter}
    IN  IF before = {} THEN <<>>
        ELSE <<processor_calls[CHOOSE i \in before : \A k \in before : k <= i].arg>>

\* C34: a process() run after enable_checkpointing(enabled=False) saves no
\* checkpoint record, and a run after enable_checkpointing(enabled=True)
\* saves them.
C34_CheckpointingSwitch ==
    \A j \in 1..Len(processor_calls) :
        (processor_calls[j].call = "process" /\ LastSet("enable_checkpointing", j) # <<>>) =>
            processor_calls[j].result.saved = LastSet("enable_checkpointing", j)[1]

\* C35: after filter_by_resolution(m) the filter stage of a process() run
\* accepts an image exactly when the image meets the threshold m.
C35_FilterUsesNewThreshold ==
    \A j \in 1..Len(processor_calls) :
        (processor_calls[j].call = "process" /\ LastSet("filter_by_resolution", j) # <<>>) =>
            processor_calls[j].result.accepted =
                MeetsCriteriaAt(processor_calls[j].arg, LastSet("filter_by_resolution", j)[1])

\* ------------------------------------------------- the comparison of reports
\* the two reports hold a batch_id and stats
WellFormed(batch) == {"batch_id", "stats"} \subseteq DOMAIN batch

\* the statistic's entries in a returned comparison: its <stat>_diff is the
\* second value minus the first, and when the first value is positive its
\* percent change (in hundredths) is within `slack` / (2 * first) hundredths
\* of (second - first) / first * 100
StatCompared(stat, slack) ==
    LET first == reports.batch1["stats"][stat]
        second == reports.batch2["stats"][stat]
        c == comparison.returned.comparison
    IN  /\ DiffKey(stat) \in DOMAIN c.diffs
        /\ c.diffs[DiffKey(stat)] = second - first
        /\ first > 0 =>
             /\ stat \in DOMAIN c.percent_changes
             /\ LET off == c.percent_changes[stat] * first - (second - first) * 10000
                IN  2 * off <= slack * first /\ 2 * off >= -(slack * first)

BothBatchIds ==
    {reports.batch1["batch_id"], reports.batch2["batch_id"]}
        \subseteq DOMAIN comparison.returned.batches

C33_DeletionAfterPackaging ==
    [][\A f \in packager.files \ packager'.files :
           /\ packager.package_path # "None"
           /\ <<"file", f>> \in packager.archive]_vars

\* Packager.process returned after deleting what it had packaged
C33_Witness ==
    /\ pc = "packager"
    /\ packager.at = "returned"
    /\ packager.package_path # "None"
    /\ packager.deleted_files # <<>>
    /\ packager.files # {}

\* --------------------------------------------------- the size of a sub-batch
\* C36: within one batch_generator run every yielded sub-batch has at most
\* the configured memory_batch_size items, whatever the configured size and
\* the memory snapshots.
C36_SubBatchSizeNeverGrows ==
    \A k \in 1..Len(yielded) : Len(yielded[k]) <= config.memory_batch_size

\* ------------------------------------------------- success names a package
\* C37: a result process() returns without an error field names a package
\* that was created, and no package phase is recorded as completed with a
\* package that was not created.
C37_SuccessNamesPackage ==
    /\ (pc = "done" /\ "error" \notin DOMAIN ret) =>
           /\ "package" \in DOMAIN ret
           /\ ret.package.package_path # "None"
           /\ package # <<>>
    /\ \A i \in 1..Len(ckpts) :
           (ckpts[i].state.phase = <<"package">> /\ StatusOf(ckpts[i].state) = "completed") =>
               ckpts[i].state.path.package_path # "None"

\* ------------------------------------------------- the index and the files
\* the record files the batch's index names
IndexedFiles(index, batch_id) ==
    IF batch_id \in DOMAIN index
    THEN {index[batch_id].checkpoints[j].filename : j \in 1..Len(index[batch_id].checkpoints)}
    ELSE {}

\* C38: after any sequence of save_checkpoint and cleanup_old_checkpoints
\* calls the batch's index and its record files agree: every entry of the
\* index names a record file that exists and every record file of the batch
\* is named by an entry.
C38_IndexAgreesWithFiles ==
    IndexedFiles(cp_index, BatchId) = RecordFiles(cp_files, BatchId)

\* --------------------------------------------------------------- termination
\* the configured cleanup has been attempted: with delete_after_packaging
\* set, a scratch directory of the batch that still exists is one whose
\* removal raised
CleanupAttempted ==
    config.delete_after_packaging => (dirs \cap ScratchDirs) \subseteq rm_failed

\* C39: process() always terminates. The sub-batch loop yields at most one
\* sub-batch per extracted file, every call ends, and a run that has entered
\* its try block returns a result, after which the configured cleanup has
\* been attempted.
C39_ProcessTerminates ==
    /\ [](Len(yielded) <= Len(extracted_files))
    /\ <>(pc \in {"done", "raised"})
    /\ (pc = "extract_start") ~> (pc = "done" /\ ret # <<>> /\ CleanupAttempted)

\* a run of several sub-batches, their size changed by critical memory, has
\* returned its result and removed its scratch directories
C39_Witness ==
    /\ pc = "done"
    /\ "stats" \in DOMAIN ret
    /\ Len(yielded) >= 2
    /\ gen_batch_size # gen_step
    /\ config.delete_after_packaging /\ dirs = {}

====
